---- MODULE Spec2Model ----
(***************************************************************************)
(* Verification model of the x402c fulfillment agent runtime.              *)
(*                                                                         *)
(*   - the transaction mutex (sdk/src/utils/txQueue.ts)                    *)
(*   - the hub write paths (backend/src/services/hubService.ts)            *)
(*   - the request router, fallback poll and sweeper                       *)
(*     (backend/src/agents/agentRunner.ts)                                 *)
(*   - the keep-alive client (sdk/src/clients/keepAlive.ts)                *)
(*   - the block cursor store (blockCursor.ts)                             *)
(*                                                                         *)
(* Every await of the TypeScript code is a step boundary: the code that    *)
(* runs between two awaits is one atomic action (single-threaded event     *)
(* loop).                                                                  *)
(***************************************************************************)
EXTENDS Integers, Sequences, FiniteSets, TLC

(***************************************************************************)
(* Bounds of the model.                                                    *)
(***************************************************************************)
\* number of concurrent callers of withTxMutex
NCallers == 4
\* number of writer tasks of the agent process
NWriters == 3
\* number of requests created on the hub
NReq == 1
\* the wall clock advances in steps of TickMs, at most MaxTicks times
TickMs == 400000
MaxTicks == 1
\* number of calls of the keep-alive client's fulfill, and of subscriptions
NKaCalls == 3
NSubs == 2
\* highest block number, number of runs of one loop body that may be in
\* progress at the same time, and number of process restarts
MaxHead == 3
NRuns == 2
MaxRestarts == 1
\* the error counters of the pollers are followed up to MaxErrors
MaxErrors == 10
\* direct calls of routeRequest: ages within AgeSpread ms of TIMEOUT_MS,
\* createdAt up to MaxCreatedAt seconds, calls while fewer than MaxTxs
\* transactions were sent
AgeSpread == 2
MaxCreatedAt == 1
MaxTxs == 2
\* the profitability gates: reimbursements 0..MaxReimb USDC units and
\* estimated costs within CostSpread units around the loss tolerance
MaxReimb == 3
CostSpread == 3
\* fulfill attempts per path in the pre-flight component
NAttempts == 1
\* the cache: at most MaxRefreshes refreshes start, the clock advances
\* MaxCacheTicks times by CacheTickMs
MaxRefreshes == 2
CacheTickMs == 20000
MaxCacheTicks == 2
\* the subscription-id cache: at most MaxSubs subscriptions exist, the
\* clock advances MaxSubTicks times by SubTickMs, MaxIdsCalls calls are made
MaxSubs == 2
SubTickMs == 30000
MaxSubTicks == 3
MaxIdsCalls == 3
\* the KeepAlive contract: block.timestamp up to MaxTimestamp, at most
\* MaxFulfillCalls calls of fulfill, maxFulfillments and intervalSeconds up
\* to MaxCycles, a fee of FeeUnits per cycle
MaxTimestamp == 3
MaxFulfillCalls == 3
MaxTransfers == 2
MaxCycles == 2
FeeUnits == 10
\* the loops with a stop handle: LoopSlots poll bodies of one loop can be in
\* progress, a loop starts MaxPolls polls, a keep-alive poll finds up to
\* MaxReady ready subscriptions
\* the block ranges of a scan: lastBlock and the current block are k *
\* RangeStep or one above, k up to MaxSteps
RangeStep == 400
MaxSteps == 6
LoopSlots == 2
MaxPolls == 4
MaxReady == 2

(***************************************************************************)
(* The transaction mutex: a chain of promises.  Promise 0 is the initial   *)
(* Promise.resolve(); every call of withTxMutex creates one new promise    *)
(* (its "gate") and stores it in the module-level txMutexPromise of its    *)
(* module instance.  A promise is named by a number; the number of a       *)
(* promise that nothing refers to any more is free to name a new one       *)
(* (garbage collection).                                                   *)
(***************************************************************************)
VARIABLES
  txMutexPromise,   \* module instance -> the promise the next caller chains on
  gateResolved      \* the promises of the chain that have been resolved

mutexVars == <<txMutexPromise, gateResolved>>

(***************************************************************************)
(* Callers of withTxMutex (one closure each), for the properties of the    *)
(* mutex itself.                                                           *)
(***************************************************************************)
VARIABLES
  closState,    \* caller -> "idle" | "queued" | "running" | "resolved" | "rejected"
  closPrev,     \* caller -> the promise its closure waits on
  closGate,     \* caller -> its own gate
  submitOrder   \* the callers in the order in which they called withTxMutex

callerVars == <<closState, closPrev, closGate, submitOrder>>

(***************************************************************************)
(* The signed writes of the agent process.                                 *)
(***************************************************************************)
VARIABLES
  chainNonce,   \* the node's pending transaction count of the agent key
  wKind,        \* writer -> which write it performs
  wState,       \* writer -> position in its write path
  wPrev,        \* writer -> the promise its closure waits on
  wGate,        \* writer -> its own gate
  wNonce,       \* writer -> the nonce read by writeContract
  sentLog       \* the nonces of the transactions sent, in sending order

senderVars == <<chainNonce, wKind, wState, wPrev, wGate, wNonce, sentLog>>

(***************************************************************************)
(* The hub contract as the agent sees it, and the agent runner.            *)
(***************************************************************************)
VARIABLES
  now,            \* wall clock, milliseconds (Date.now())
  head,           \* current block number
  reqBlock,       \* request -> block of its RequestCreated log (0: not created)
  reqStatus,      \* request -> "NONE" | "PENDING" | "FULFILLED" | "CANCELLED"
  reqCreatedAt,   \* request -> createdAt, seconds
  reqEndpoint,    \* request -> endpoint id
  txs,            \* the hub transactions sent by the agent, in sending order
  reported,       \* the transactions reported as a success (hash returned
                  \* as the result, terminal broadcast emitted)
  cursorFile,     \* label -> persisted block cursor (0: no file)
  lastBlock,      \* the watcher's lastBlock
  scanPc,         \* scanner -> position of its run
  scanLatest,     \* scanner -> block number read by the run
  scanFrom,       \* scanner -> fromBlock of the run
  scanList,       \* scanner -> requests of the run still to be handled
  scanPending,    \* scanner -> requests the run found PENDING
  inProgress,     \* the router's in-flight set
  task,           \* (source, request) -> routing / cancelling task
  bcast,          \* the (type, request) events broadcast so far
  dropped,        \* the requests for which a call returned at the single-flight guard
  skipped         \* the requests whose fulfill was skipped (simulation failed, unprofitable)

chainVars == <<now, head, reqBlock, reqStatus, reqCreatedAt, reqEndpoint, txs, reported>>
scanVars == <<cursorFile, lastBlock, scanPc, scanLatest, scanFrom, scanList, scanPending>>
routerVars == <<inProgress, task, bcast, dropped, skipped>>

\* the range of each scanner's first successful scan since the start
VARIABLE firstScan

agentVars == <<chainVars, scanVars, routerVars, firstScan>>

(***************************************************************************)
(* The keep-alive client (createKeepAliveClient) and its contract.         *)
(***************************************************************************)
VARIABLES
  inFlight,     \* the client's in-flight set of subscription ids
  kaCall,       \* call of fulfill -> its position, subscription, promises, result
  kaReady,      \* subscription -> isReady on the contract
  kaTxs         \* the fulfill transactions sent, in sending order

kaVars == <<inFlight, kaCall, kaReady, kaTxs>>

(***************************************************************************)
(* Runs of the scan loops that overlap in time (the loops are driven by    *)
(* setInterval), and restarts of the process.  The runs work on head,      *)
(* cursorFile and lastBlock.                                               *)
(***************************************************************************)
VARIABLES
  run,          \* (scanner, slot) -> a run of the loop body: position, locals
  wPersisted,   \* the highest cursor the watcher has persisted so far
  dispatchLog,  \* (block, floor): an event of that block was dispatched by a
                \* watcher scan that began when wPersisted was floor
  restarts      \* number of restarts so far

runVars == <<run, wPersisted, dispatchLog, restarts>>

(***************************************************************************)
(* The error backoff of the request watcher (watchRequestCreated) and of   *)
(* the SDK's createEventPoller.                                            *)
(***************************************************************************)
VARIABLES
  consecutiveErrors,   \* watchRequestCreated: consecutiveErrors
  currentPollMs,       \* watchRequestCreated: currentPollMs
  errorCount,          \* createEventPoller: errorCount
  currentInterval,     \* createEventPoller: currentInterval
  streak,              \* poller -> the poll errors in a row (n), and the
                       \* interval (base) and the error counter (from) the
                       \* poller had when the row began
  recovery             \* watchRequestCreated: what its first successful poll
                       \* after a reset of lastBlock has scanned

backoffVars ==
  <<consecutiveErrors, currentPollMs, errorCount, currentInterval, streak, recovery>>

(***************************************************************************)
(* The profitability gates of the SDK (checkTxProfitability), of the       *)
(* keep-alive fulfill and of the hub-service fulfill.                      *)
(***************************************************************************)
VARIABLES
  reimbursementUsdc,   \* the agent's payout for the transaction, USDC units
  estimatedCostUsdc,   \* (estimatedCostWei * ethPrice) / 1e18, USDC units
  ethPrice,            \* the oracle price (0: no price)
  lookupOk,            \* getGasPrice / getEthPrice return (FALSE: one throws)
  decision             \* gate -> "none" | "proceed" | "skip" | "thrown"

profitVars == <<reimbursementUsdc, estimatedCostUsdc, ethPrice, lookupOk, decision>>

(***************************************************************************)
(* The pre-flight of a fulfill on the three paths: fulfillRequestOnChain   *)
(* (hub service), fulfillRequest (SDK hub client), fulfill (keep-alive).   *)
(***************************************************************************)
VARIABLES
  attempt,     \* <<path, i>> -> [pc, prev, gate, est]; est is the outcome of
               \* the attempt's gas estimations: "none" | "ok" | "failed"
  submitted    \* the attempts that have called writeContract

preflightVars == <<attempt, submitted>>

(***************************************************************************)
(* The state cache of the backend (cacheService.ts).                       *)
(***************************************************************************)
VARIABLES
  dateNow,        \* Date.now()
  cachedState,    \* key -> value; a value is the number of the refresh that
                  \* fetched it, 0 for null; NullState before the first publish
  lastRefreshMs,
  refreshing,
  refresh,        \* the running refreshCache body: [pc, gen, start, results]
  refreshCount,   \* refreshes started
  published,      \* the refreshes that have published their snapshot
  lastGood,       \* key -> the last published refresh whose fetch of the key
                  \* succeeded (0: none)
  seen,           \* what the last call of getCachedState / getCached returned
  forced          \* the last forceRefresh() call: [pc, since, snap]

cacheVars ==
  <<dateNow, cachedState, lastRefreshMs, refreshing, refresh, refreshCount,
    published, lastGood, seen, forced>>

(***************************************************************************)
(* getSubscriptionIds of the keep-alive client and its 60 s cache.         *)
(***************************************************************************)
VARIABLES
  subNow,           \* Date.now()
  subscriptionIds,  \* the contract's array of subscription ids
  cachedSubIds,
  subIdsCacheTime,
  idsCall,          \* the running getSubscriptionIds call
  idsCalls,         \* calls made
  idsInvalidated,   \* invalidateSubIdCache was called since the last return
  idsReturned       \* the last two calls that have ended, oldest first

subVars ==
  <<subNow, subscriptionIds, cachedSubIds, subIdsCacheTime, idsCall, idsCalls,
    idsInvalidated, idsReturned>>

(***************************************************************************)
(* The KeepAlive contract: one subscription, a second one of the same      *)
(* consumer, and the accounts around them.                                 *)
(***************************************************************************)
VARIABLES
  subscription,             \* subscriptions[id]: active, fulfillmentCount,
                            \* maxFulfillments, lastFulfilled, intervalSeconds,
                            \* feePerCycle
  balances,                 \* balances[sub.consumer]
  agentUsdc,                \* USDC transferred to callers of fulfill
  protocolFeesAccumulator,
  totalFulfillments,
  blockTimestamp,           \* block.timestamp
  shouldRunAnswer,          \* what the consumer's shouldRun does: "true",
                            \* "false" or "reverts" (not implemented)
  oracleGasUsdc,            \* _computeGasReimbursement(sub.estimatedGasCostWei)
  fulfillOutcome,           \* how the last fulfill transaction ended
  fulfillCalls,             \* fulfill transactions executed
  usdcHeld,                 \* usdc.balanceOf(address(this))
  otherActive,              \* subscriptions[id2].active, id2 a second
                            \* subscription of sub.consumer
  otherBalances,            \* balances[a] of a second depositor
  transfers                 \* deposit and withdraw transactions executed

contractState ==
  <<subscription, balances, agentUsdc, protocolFeesAccumulator, totalFulfillments,
    usdcHeld, otherActive, otherBalances>>

contractVars ==
  <<subscription, balances, agentUsdc, protocolFeesAccumulator, totalFulfillments,
    blockTimestamp, shouldRunAnswer, oracleGasUsdc, fulfillOutcome, fulfillCalls,
    usdcHeld, otherActive, otherBalances, transfers>>

(***************************************************************************)
(* The polling loops and their stop handles: watchRequestCreated,          *)
(* createEventPoller and pollAndFulfill.                                   *)
(***************************************************************************)
VARIABLES
  stopped,       \* loop -> the loop's `stopped` flag
  timer,         \* loop -> its interval / timeout is set
  body,          \* <<loop, slot>> -> a run of poll: [pc, left]
  polls,         \* loop -> runs of poll started
  lateEffects    \* <<loop, effect>>: callbacks, transactions and cursor writes
                 \* made while the loop's stopped flag was set

loopVars == <<stopped, timer, body, polls, lateEffects>>

(***************************************************************************)
(* The getLogs calls of one scan.                                          *)
(***************************************************************************)
VARIABLE
  logCalls   \* the last scan: [scanner, last, current, ranges], ranges the
             \* <<fromBlock, toBlock>> of its getLogs calls in order

rangeVars == <<logCalls>>

(***************************************************************************)
(* watchConfigEvents.                                                      *)
(***************************************************************************)
VARIABLES
  cfgLastBlock,   \* lastBlock of watchConfigEvents
  cfgErrors,      \* its consecutiveErrors
  cfgPoll,        \* its poll: [pc, from, to]
  cfgSince,       \* the block of its first successful poll, 0 before
  cfgEvents,      \* the blocks in which the hub emitted a config event
  cfgDelivered    \* the blocks whose config events went to the callback

configVars == <<cfgLastBlock, cfgErrors, cfgPoll, cfgSince, cfgEvents, cfgDelivered>>

vars ==
  <<mutexVars, callerVars, senderVars, agentVars, kaVars, runVars, backoffVars,
    profitVars, preflightVars, cacheVars,
    subVars,
    contractVars,
    loopVars,
    rangeVars,
    configVars>>

\* what the actions of each component leave alone
callerOthers ==
  <<senderVars, agentVars, kaVars, runVars, backoffVars, profitVars, preflightVars, cacheVars,
    subVars,
    contractVars,
    loopVars,
    rangeVars,
    configVars>>
senderOthers ==
  <<callerVars, agentVars, kaVars, runVars, backoffVars, profitVars, preflightVars, cacheVars,
    subVars,
    contractVars,
    loopVars,
    rangeVars,
    configVars>>
agentOutside ==
  <<callerVars, senderVars, kaVars, runVars, backoffVars, profitVars, preflightVars, cacheVars,
    subVars,
    contractVars,
    loopVars,
    rangeVars,
    configVars>>
agentOthers == <<agentOutside, firstScan>>
kaOthers ==
  <<callerVars, senderVars, agentVars, runVars, backoffVars, profitVars, preflightVars, cacheVars,
    subVars,
    contractVars,
    loopVars,
    rangeVars,
    configVars>>
backoffOthers ==
  <<mutexVars, callerVars, senderVars, agentVars, kaVars, runVars, profitVars,
    preflightVars, cacheVars,
    subVars,
    contractVars,
    loopVars,
    rangeVars,
    configVars>>
profitOthers ==
  <<mutexVars, callerVars, senderVars, agentVars, kaVars, runVars, backoffVars,
    preflightVars, cacheVars,
    subVars,
    contractVars,
    loopVars,
    rangeVars,
    configVars>>
preflightOthers ==
  <<callerVars, senderVars, agentVars, kaVars, runVars, backoffVars, profitVars,
    cacheVars,
    subVars,
    contractVars,
    loopVars,
    rangeVars,
    configVars>>
cacheOthers ==
  <<mutexVars, callerVars, senderVars, agentVars, kaVars, runVars, backoffVars,
    profitVars, preflightVars,
    subVars,
    contractVars,
    loopVars,
    rangeVars,
    configVars>>
subOthers ==
  <<mutexVars, callerVars, senderVars, agentVars, kaVars,
    runVars, backoffVars, profitVars, preflightVars, cacheVars,
    contractVars,
    loopVars,
    rangeVars,
    configVars>>
contractOthers ==
  <<mutexVars, callerVars, senderVars, agentVars, kaVars,
    runVars, backoffVars, profitVars, preflightVars, cacheVars, subVars,
    loopVars,
    rangeVars,
    configVars>>
tickerOthers ==
  <<mutexVars, callerVars, senderVars, agentVars, kaVars, runVars,
    streak, recovery, profitVars, preflightVars, cacheVars, subVars, contractVars,
    rangeVars,
    configVars>>
loopOthers ==
  <<mutexVars, callerVars, senderVars, agentVars, kaVars, runVars,
    backoffVars, profitVars, preflightVars, cacheVars, subVars, contractVars,
    rangeVars,
    configVars>>
watcherOthers ==
  <<mutexVars, callerVars, senderVars, kaVars, runVars, profitVars, preflightVars,
    cacheVars, now, reqBlock, reqStatus,
    reqCreatedAt, reqEndpoint, txs, reported, scanPc, scanLatest, scanFrom,
    scanList, scanPending, routerVars,
    firstScan, subVars,
    contractVars,
    loopVars,
    rangeVars,
    configVars>>
rangeOthers ==
  <<mutexVars, callerVars, senderVars, agentVars, kaVars, runVars,
    backoffVars, profitVars, preflightVars, cacheVars, subVars, contractVars, loopVars,
    configVars>>
configOthers ==
  <<mutexVars, callerVars, senderVars, agentVars, kaVars, runVars, backoffVars,
    profitVars, preflightVars, cacheVars, subVars, contractVars, loopVars, rangeVars>>
configChain ==
  <<cursorFile, lastBlock, runVars, mutexVars, callerVars, senderVars, kaVars,
    backoffVars, profitVars, preflightVars, cacheVars, now, reqBlock, reqStatus,
    reqCreatedAt, reqEndpoint, txs, reported, scanPc, scanLatest, scanFrom,
    scanList, scanPending, routerVars, firstScan, subVars, contractVars, loopVars,
    rangeVars>>
runOthers ==
  <<mutexVars, callerVars, senderVars, kaVars, backoffVars, profitVars, preflightVars,
    cacheVars, now, reqBlock, reqStatus,
    reqCreatedAt, reqEndpoint, txs, reported, scanPc, scanLatest, scanFrom,
    scanList, scanPending, routerVars,
    firstScan, subVars,
    contractVars,
    loopVars,
    rangeVars,
    configVars>>

\* The two module instances of the mutex that live in the agent process:
\* hubService.ts imports ./txQueue.js (backend), the keep-alive client
\* imports ../utils/txQueue.js inside the x402c package (sdk).
Queues == {"backend", "sdk"}

MutexInit ==
  /\ txMutexPromise = [q \in Queues |-> 0]
  /\ gateResolved = {0}

\* the promises something still refers to: the tails of the chains, and the
\* prev and the own gate of every closure that has not returned
LiveGatesOf(tails, tasks) ==
  {tails[q] : q \in Queues}
    \cup {closPrev[c] : c \in DOMAIN closPrev} \cup {closGate[c] : c \in DOMAIN closGate}
    \cup {wPrev[w] : w \in DOMAIN wPrev} \cup {wGate[w] : w \in DOMAIN wGate}
    \cup {tasks[t].prev : t \in DOMAIN tasks} \cup {tasks[t].gate : t \in DOMAIN tasks}
    \cup {kaCall[c].prev : c \in DOMAIN kaCall} \cup {kaCall[c].gate : c \in DOMAIN kaCall}
    \cup {attempt[a].prev : a \in DOMAIN attempt} \cup {attempt[a].gate : a \in DOMAIN attempt}

LiveGates == LiveGatesOf(txMutexPromise, task)

\* a number that names no live promise
FreshGate(live) == CHOOSE g \in 1..(Cardinality(live) + 1) : g \notin live

\* `const prev = txMutexPromise` with the chain broken: every caller chains
\* on the initial resolved promise.
PrevGate_NoChain(q) == 0

\* `const prev = txMutexPromise`
PrevGate(q) == txMutexPromise[q]

\* the promise created by `new Promise<void>(...)`
NewGate == FreshGate(LiveGates)

\* `txMutexPromise = new Promise<void>((r) => { resolve = r; })`
\* The caller keeps (prev, own): the promise it waits on and its own gate.
MutexEnqueue(q) ==
  /\ txMutexPromise' = [txMutexPromise EXCEPT ![q] = NewGate]
  /\ gateResolved' = gateResolved \ {NewGate}

\* `prev.then(fn)`: fn is invoked once prev is resolved.
GateOpen(g) == g \in gateResolved

\* fn is invoked: the closure's reference to prev is dropped; prev remains
\* only if it is still the tail of a chain
MutexEnter(g) ==
  /\ gateResolved' =
       IF g # 0 /\ g \notin {txMutexPromise[q] : q \in Queues}
       THEN gateResolved \ {g} ELSE gateResolved
  /\ UNCHANGED txMutexPromise

\* `.finally(() => resolve!())`
MutexRelease(g) ==
  /\ gateResolved' = gateResolved \cup {g}
  /\ UNCHANGED txMutexPromise

Callers == 1..NCallers

CallerInit ==
  /\ closState = [c \in Callers |-> "idle"]
  /\ closPrev = [c \in Callers |-> 0]
  /\ closGate = [c \in Callers |-> 0]
  /\ submitOrder = <<>>

\* withTxMutex(fn), the synchronous part
CallWithTxMutex(c) ==
  /\ closState[c] = "idle"
  /\ closPrev' = [closPrev EXCEPT ![c] = PrevGate("sdk")]
  /\ closGate' = [closGate EXCEPT ![c] = NewGate]
  /\ MutexEnqueue("sdk")
  /\ closState' = [closState EXCEPT ![c] = "queued"]
  /\ submitOrder' = Append(submitOrder, c)
  /\ UNCHANGED callerOthers

\* prev.then(fn): the closure is invoked
InvokeClosure(c) ==
  /\ closState[c] = "queued"
  /\ GateOpen(closPrev[c])
  /\ closState' = [closState EXCEPT ![c] = "running"]
  /\ closPrev' = [closPrev EXCEPT ![c] = 0]
  /\ MutexEnter(closPrev[c])
  /\ UNCHANGED <<closGate, submitOrder>>
  /\ UNCHANGED callerOthers

\* a release in `.then(() => resolve!())`: not after a rejection
ReleasesGate_OnResolve(outcome) == outcome = "resolved"

\* `.finally(() => resolve!())` runs however the promise of fn settles
ReleasesGate(outcome) == TRUE

\* the promise returned by fn settles; finally releases the gate
SettleClosure(c) ==
  /\ closState[c] = "running"
  /\ \E outcome \in {"resolved", "rejected"} :
       /\ closState' = [closState EXCEPT ![c] = outcome]
       /\ IF ReleasesGate(outcome) THEN MutexRelease(closGate[c])
          ELSE UNCHANGED mutexVars
  /\ closGate' = [closGate EXCEPT ![c] = 0]
  /\ UNCHANGED <<closPrev, submitOrder>>
  /\ UNCHANGED callerOthers

(***************************************************************************)
(* Writers: the tasks of the agent process that sign a transaction with    *)
(* the agent key (ADMIN_WALLET).  hubService.ts builds its wallet client   *)
(* in initHubClient, agentRunner.ts builds a second wallet client for the  *)
(* keep-alive client from the same key.                                    *)
(***************************************************************************)
Writers == 1..NWriters

WriteKinds == {"hubFulfill", "hubCancel", "hubFlush", "kaFulfill"}

\* The mutex instance a write goes through.  The hub writes call the
\* withTxMutex that hubService.ts imports from ./txQueue.js; the keep-alive
\* fulfill calls the withTxMutex of the x402c package.
QueueOf(kind) == IF kind = "kaFulfill" THEN "sdk" ELSE "backend"

\* the writes whose closure waits for the receipt before it returns
AwaitsReceipt(kind) == kind \in {"hubFulfill", "hubFlush"}

SenderInit ==
  /\ chainNonce = 0
  /\ wKind = [w \in Writers |-> "hubFulfill"]
  /\ wState = [w \in Writers |-> "idle"]
  /\ wPrev = [w \in Writers |-> 0]
  /\ wGate = [w \in Writers |-> 0]
  /\ wNonce = [w \in Writers |-> 0]
  /\ sentLog = <<>>

\* fulfillRequestOnChain / cancelRequestOnChain / flushProtocolFeesToBuyback /
\* keepAlive.fulfill reach their withTxMutex call
WriterCall(w) ==
  /\ wState[w] = "idle"
  /\ \E kind \in WriteKinds :
       /\ wKind' = [wKind EXCEPT ![w] = kind]
       /\ wPrev' = [wPrev EXCEPT ![w] = PrevGate(QueueOf(kind))]
       /\ wGate' = [wGate EXCEPT ![w] = NewGate]
       /\ MutexEnqueue(QueueOf(kind))
  /\ wState' = [wState EXCEPT ![w] = "queued"]
  /\ UNCHANGED <<chainNonce, wNonce, sentLog>>
  /\ UNCHANGED senderOthers

\* the closure is invoked
WriterInvoke(w) ==
  /\ wState[w] = "queued"
  /\ GateOpen(wPrev[w])
  /\ wState' = [wState EXCEPT ![w] =
                  IF wKind[w] = "hubFulfill" THEN "preflight" ELSE "write"]
  /\ wPrev' = [wPrev EXCEPT ![w] = 0]
  /\ MutexEnter(wPrev[w])
  /\ UNCHANGED <<chainNonce, wKind, wGate, wNonce, sentLog>>
  /\ UNCHANGED senderOthers

\* fulfillRequestOnChain between the start of its closure and writeContract:
\* status read, gas estimate, profitability.  Either it goes on to
\* writeContract or it returns null (and the finally releases the gate).
WriterPreflight(w) ==
  /\ wState[w] = "preflight"
  /\ \E proceed \in BOOLEAN :
       IF proceed
       THEN /\ wState' = [wState EXCEPT ![w] = "write"]
            /\ UNCHANGED mutexVars
       ELSE /\ wState' = [wState EXCEPT ![w] = "done"]
            /\ MutexRelease(wGate[w])
  /\ UNCHANGED <<chainNonce, wKind, wPrev, wGate, wNonce, sentLog>>
  /\ UNCHANGED senderOthers

\* writeContract, first half: the client reads the pending nonce of the key
WriterReadNonce(w) ==
  /\ wState[w] = "write"
  /\ wNonce' = [wNonce EXCEPT ![w] = chainNonce]
  /\ wState' = [wState EXCEPT ![w] = "preparing"]
  /\ UNCHANGED <<chainNonce, wKind, wPrev, wGate, sentLog, mutexVars>>
  /\ UNCHANGED senderOthers

\* writeContract, second half: the signed transaction is sent.  The node
\* takes it when the nonce is the next one; a nonce already used is either
\* refused (writeContract throws) or taken as a replacement.
WriterSend(w) ==
  /\ wState[w] = "preparing"
  /\ sentLog' = Append(sentLog, wNonce[w])
  /\ \E taken \in BOOLEAN :
       /\ (wNonce[w] = chainNonce) => taken
       /\ chainNonce' = IF wNonce[w] = chainNonce THEN chainNonce + 1 ELSE chainNonce
       /\ IF taken /\ AwaitsReceipt(wKind[w])
          THEN /\ wState' = [wState EXCEPT ![w] = "sent"]
               /\ UNCHANGED mutexVars
          ELSE /\ wState' = [wState EXCEPT ![w] = "done"]
               /\ MutexRelease(wGate[w])
  /\ UNCHANGED <<wKind, wPrev, wGate, wNonce>>
  /\ UNCHANGED senderOthers

\* waitForTransactionReceipt returns (or throws); the closure returns
WriterReceipt(w) ==
  /\ wState[w] = "sent"
  /\ wState' = [wState EXCEPT ![w] = "done"]
  /\ MutexRelease(wGate[w])
  /\ UNCHANGED <<chainNonce, wKind, wPrev, wGate, wNonce, sentLog>>
  /\ UNCHANGED senderOthers

SenderNext ==
  \E w \in Writers :
    \/ WriterCall(w)
    \/ WriterInvoke(w)
    \/ WriterPreflight(w)
    \/ WriterReadNonce(w)
    \/ WriterSend(w)
    \/ WriterReceipt(w)

(***************************************************************************)
(* The hub: requests, blocks, time and the transactions of the agent.      *)
(***************************************************************************)
Requests == 1..NReq

\* const TIMEOUT_MS = 5 * 60 * 1000
TIMEOUT_MS == 300000

\* the endpoint ids of the handler registries; requests are created for an
\* endpoint with a handler or for one that is in neither registry
ALCHEMY_ENDPOINT_IDS == {"alchemy"}
OPENSEA_ENDPOINT_IDS == {"opensea"}
EndpointIds == {"alchemy", "unknown"}

\* `const CHUNK = 1000n` and the default lookback of the scans
CHUNK == 1000
MaxLookbackBlocks == 1000

Labels == {"hub-watcher", "hub-fallback", "hub-sweeper"}
Scanners == {"watcher", "fallback", "sweeper"}
Sources == Scanners
TaskIds == Sources \X Requests

LabelOf(s) ==
  IF s = "watcher" THEN "hub-watcher"
  ELSE IF s = "fallback" THEN "hub-fallback" ELSE "hub-sweeper"

IdleTask == [pc |-> "idle", prev |-> 0, gate |-> 0, tx |-> 0]

\* no scan has succeeded yet
NoScan == [from |-> -1, latest |-> -1]

\* the first successful scan of scanner s is remembered
FirstScan(s) ==
  firstScan' = [firstScan EXCEPT ![s] =
                  IF @ = NoScan THEN [from |-> scanFrom[s], latest |-> scanLatest[s]]
                  ELSE @]

AgentInit ==
  /\ now = 0
  /\ head = 1
  /\ reqBlock = [r \in Requests |-> 0]
  /\ reqStatus = [r \in Requests |-> "NONE"]
  /\ reqCreatedAt = [r \in Requests |-> 0]
  /\ reqEndpoint = [r \in Requests |-> "unknown"]
  /\ txs = <<>>
  /\ reported = {}
  /\ cursorFile = [l \in Labels |-> 0]
  /\ lastBlock = 0
  /\ scanPc = [s \in Scanners |-> "idle"]
  /\ scanLatest = [s \in Scanners |-> 0]
  /\ scanFrom = [s \in Scanners |-> 0]
  /\ scanList = [s \in Scanners |-> <<>>]
  /\ scanPending = [s \in Scanners |-> <<>>]
  /\ inProgress = {}
  /\ task = [t \in TaskIds |-> IdleTask]
  /\ bcast = {}
  /\ dropped = {}
  /\ skipped = {}
  /\ firstScan = [s \in Scanners |-> NoScan]

\* the staleness test with the boundary on the wrong side
IsStale_Inclusive(nowMs, createdAt) == nowMs - createdAt * 1000 >= TIMEOUT_MS

\* `Date.now() - Number(req.createdAt) * 1000 > TIMEOUT_MS`
IsStale(nowMs, createdAt) == nowMs - createdAt * 1000 > TIMEOUT_MS

\* the RequestCreated logs of the blocks from..to, in block order
RECURSIVE LogsIn(_, _)
LogsIn(from, to) ==
  IF from > to THEN <<>>
  ELSE (IF \E r \in Requests : reqStatus[r] # "NONE" /\ reqBlock[r] = from
        THEN <<CHOOSE r \in Requests : reqStatus[r] # "NONE" /\ reqBlock[r] = from>>
        ELSE <<>>) \o LogsIn(from + 1, to)

\* time passes
Tick ==
  /\ now < MaxTicks * TickMs
  /\ now' = now + TickMs
  /\ UNCHANGED <<head, reqBlock, reqStatus, reqCreatedAt, reqEndpoint, txs, reported>>
  /\ UNCHANGED <<scanVars, routerVars, mutexVars, agentOthers>>

\* a requester creates request r: a new block with its RequestCreated log
CreateRequest(r) ==
  /\ reqStatus[r] = "NONE"
  /\ head' = head + 1
  /\ reqBlock' = [reqBlock EXCEPT ![r] = head + 1]
  /\ reqStatus' = [reqStatus EXCEPT ![r] = "PENDING"]
  /\ reqCreatedAt' = [reqCreatedAt EXCEPT ![r] = now \div 1000]
  /\ \E e \in EndpointIds : reqEndpoint' = [reqEndpoint EXCEPT ![r] = e]
  /\ UNCHANGED <<now, txs, reported>>
  /\ UNCHANGED <<scanVars, routerVars, mutexVars, agentOthers>>

\* another agent wins the race for request r
PeerFulfill(r) ==
  /\ reqStatus[r] = "PENDING"
  /\ reqStatus' = [reqStatus EXCEPT ![r] = "FULFILLED"]
  /\ UNCHANGED <<now, head, reqBlock, reqCreatedAt, reqEndpoint, txs, reported>>
  /\ UNCHANGED <<scanVars, routerVars, mutexVars, agentOthers>>

\* The hub executes transaction i.  fulfillRequest and cancelRequest revert
\* unless the request is PENDING; cancelRequest may also revert for reasons
\* of the contract (not under src), so its success is left open.
TxOutcomes(i) ==
  IF reqStatus[txs[i].req] # "PENDING" THEN {"reverted"}
  ELSE IF txs[i].kind = "fulfill" THEN {"success"}
  ELSE {"success", "reverted"}

Mined(i, outcome) ==
  /\ txs' = [txs EXCEPT ![i].state = outcome]
  /\ reqStatus' =
       IF outcome = "success"
       THEN [reqStatus EXCEPT ![txs[i].req] =
               IF txs[i].kind = "fulfill" THEN "FULFILLED" ELSE "CANCELLED"]
       ELSE reqStatus

\* a transaction nobody waits for is mined
MineUnwatched(i) ==
  /\ i \in 1..Len(txs)
  /\ txs[i].state = "pending"
  /\ \A t \in TaskIds : ~(task[t].pc = "fReceipt" /\ task[t].tx = i)
  /\ \E outcome \in TxOutcomes(i) : Mined(i, outcome)
  /\ UNCHANGED <<now, head, reqBlock, reqCreatedAt, reqEndpoint, reported>>
  /\ UNCHANGED <<scanVars, routerVars, mutexVars, agentOthers>>

(***************************************************************************)
(* The router.  routeRequest runs synchronously up to its first await, so  *)
(* it is a function of the router state: the in-flight set, the tasks, the *)
(* tail of the backend mutex chain and the broadcasts.                     *)
(***************************************************************************)
RouterState ==
  [inP |-> inProgress, task |-> task, tmp |-> txMutexPromise["backend"],
   res |-> gateResolved, bc |-> bcast, dr |-> dropped]

SetRouterState(st) ==
  /\ inProgress' = st.inP
  /\ task' = st.task
  /\ txMutexPromise' = [txMutexPromise EXCEPT !["backend"] = st.tmp]
  /\ gateResolved' = st.res
  /\ bcast' = st.bc
  /\ dropped' = st.dr
  /\ UNCHANGED skipped

\* the single-flight guard without its test
AlreadyInProgress_Never(inP, r) == FALSE

\* `inProgress.has(requestId)`
AlreadyInProgress(inP, r) == r \in inP

\* the classification that finds a handler for every endpoint
HasHandler_Always(e) == TRUE

\* `ALCHEMY_ENDPOINT_IDS.has(endpointId)`, `OPENSEA_ENDPOINT_IDS.has(endpointId)`
HasHandler(e) == e \in ALCHEMY_ENDPOINT_IDS \cup OPENSEA_ENDPOINT_IDS

\* cancelRequestOnChain(requestId) up to its first await: withTxMutex
\* chains the closure on the backend mutex
CancelCall(st, t) ==
  LET g == FreshGate(LiveGatesOf([txMutexPromise EXCEPT !["backend"] = st.tmp], st.task))
  IN [st EXCEPT !.task[t] = [pc |-> "cQueued", prev |-> st.tmp, gate |-> g, tx |-> 0],
                !.tmp = g,
                !.res = @ \ {g}]

\* routeRequest(req) up to its first await
RouteRequest(st, src, r) ==
  LET t == <<src, r>> IN
  IF AlreadyInProgress(st.inP, r)
  THEN [st EXCEPT !.task[t] = IF @.pc = "getRequest" THEN IdleTask ELSE @,
                  !.dr = @ \cup {r}]
  ELSE IF IsStale(now, reqCreatedAt[r])
  THEN CancelCall([st EXCEPT !.bc = @ \cup {<<"request_timeout", r>>},
                             !.inP = @ \cup {r}], t)
  ELSE IF HasHandler(reqEndpoint[r])
  THEN [st EXCEPT !.inP = @ \cup {r},
                  !.bc = @ \cup {<<"request_routing", r>>},
                  !.task[t] = [IdleTask EXCEPT !.pc = "handler"]]
  ELSE CancelCall([st EXCEPT !.inP = @ \cup {r},
                             !.bc = @ \cup {<<"request_timeout_unknown_endpoint", r>>}], t)

\* `pending.map(routeRequest)`
RECURSIVE RouteAll(_, _, _)
RouteAll(st, src, list) ==
  IF list = <<>> THEN st
  ELSE RouteAll(RouteRequest(st, src, Head(list)), src, Tail(list))

(***************************************************************************)
(* The request watcher (watchRequestCreated) and onRequestCreated.         *)
(***************************************************************************)
\* a run ends: its local variables (latest block, fromBlock) are gone
EndRun(s) ==
  /\ scanPc' = [scanPc EXCEPT ![s] = "idle"]
  /\ scanLatest' = [scanLatest EXCEPT ![s] = 0]
  /\ scanFrom' = [scanFrom EXCEPT ![s] = 0]

\* poll: getBlockNumber has returned.  A poll whose getBlockNumber throws,
\* or that finds no new block, changes nothing here and is left out.
WatcherPollBegin ==
  /\ scanPc["watcher"] = "idle"
  /\ IF lastBlock = 0
     THEN /\ lastBlock' = head
          /\ cursorFile' = [cursorFile EXCEPT !["hub-watcher"] = head]
          /\ UNCHANGED <<scanPc, scanLatest, scanFrom>>
     ELSE /\ head > lastBlock
          /\ scanFrom' = [scanFrom EXCEPT !["watcher"] = lastBlock + 1]
          /\ scanLatest' = [scanLatest EXCEPT !["watcher"] = head]
          /\ scanPc' = [scanPc EXCEPT !["watcher"] = "logs"]
          /\ UNCHANGED <<lastBlock, cursorFile>>
  /\ UNCHANGED <<scanList, scanPending>>
  /\ UNCHANGED <<chainVars, routerVars, mutexVars, agentOthers>>

\* poll: getLogs has returned (the range lies within one chunk); every log
\* is passed to onRequestCreated, which broadcasts and starts getRequest
WatcherLogs ==
  /\ scanPc["watcher"] = "logs"
  /\ LET logs == LogsIn(scanFrom["watcher"], scanLatest["watcher"])
         found == {logs[i] : i \in 1..Len(logs)}
     IN /\ task' = [t \in TaskIds |->
                      IF t[1] = "watcher" /\ t[2] \in found
                      THEN [IdleTask EXCEPT !.pc = "getRequest"]
                      ELSE task[t]]
        /\ bcast' = bcast \cup {<<"request_created", r>> : r \in found}
  /\ lastBlock' = scanLatest["watcher"]
  /\ cursorFile' = [cursorFile EXCEPT !["hub-watcher"] = scanLatest["watcher"]]
  /\ FirstScan("watcher")
  /\ EndRun("watcher")
  /\ UNCHANGED <<scanList, scanPending, inProgress, dropped, skipped>>
  /\ UNCHANGED <<chainVars, mutexVars, agentOutside>>

\* poll: getLogs has thrown
WatcherPollError ==
  /\ scanPc["watcher"] = "logs"
  /\ EndRun("watcher")
  /\ UNCHANGED <<cursorFile, lastBlock, scanList, scanPending>>
  /\ UNCHANGED <<chainVars, routerVars, mutexVars, agentOthers>>

\* onRequestCreated: getRequest(requestId) has returned
OnRequestCreated(r) ==
  LET t == <<"watcher", r>> IN
  /\ task[t].pc = "getRequest"
  /\ \E ok \in BOOLEAN :
       IF ok /\ reqStatus[r] = "PENDING"
       THEN SetRouterState(RouteRequest(RouterState, "watcher", r))
       ELSE /\ task' = [task EXCEPT ![t] = IdleTask]
            /\ UNCHANGED <<inProgress, bcast, dropped, skipped, mutexVars>>
  /\ UNCHANGED <<chainVars, scanVars, agentOthers>>

(***************************************************************************)
(* pollPendingRequests, run by the fallback poll and by the sweeper.       *)
(***************************************************************************)
PollScanners == {"fallback", "sweeper"}

\* fromBlock of pollPendingRequests
ScanFromBlock(savedBlock, latestBlock) ==
  IF savedBlock > 0 THEN savedBlock + 1
  ELSE IF latestBlock > MaxLookbackBlocks THEN latestBlock - MaxLookbackBlocks ELSE 0

\* getBlockNumber has returned and the cursor is loaded.  A run whose
\* getBlockNumber throws, or whose cursor is at the latest block, returns []
\* and changes nothing: it is left out.
ScanBegin(s) ==
  /\ s \in PollScanners
  /\ scanPc[s] = "idle"
  /\ ScanFromBlock(cursorFile[LabelOf(s)], head) <= head
  /\ scanLatest' = [scanLatest EXCEPT ![s] = head]
  /\ scanFrom' = [scanFrom EXCEPT ![s] = ScanFromBlock(cursorFile[LabelOf(s)], head)]
  /\ scanPc' = [scanPc EXCEPT ![s] = "logs"]
  /\ UNCHANGED <<cursorFile, lastBlock, scanList, scanPending>>
  /\ UNCHANGED <<chainVars, routerVars, mutexVars, agentOthers>>

\* getLogs has returned (one chunk) or thrown; on success the cursor is saved
ScanLogs(s) ==
  /\ s \in PollScanners
  /\ scanPc[s] = "logs"
  /\ \E ok \in BOOLEAN :
       IF ok
       THEN LET logs == LogsIn(scanFrom[s], scanLatest[s]) IN
            /\ cursorFile' = [cursorFile EXCEPT ![LabelOf(s)] = scanLatest[s]]
            /\ scanList' = [scanList EXCEPT ![s] = logs]
            /\ scanPc' = [scanPc EXCEPT ![s] = IF logs = <<>> THEN "idle" ELSE "lookup"]
            /\ FirstScan(s)
       ELSE /\ scanPc' = [scanPc EXCEPT ![s] = "idle"]
            /\ UNCHANGED <<cursorFile, scanList, firstScan>>
  /\ scanLatest' = [scanLatest EXCEPT ![s] = 0]
  /\ scanFrom' = [scanFrom EXCEPT ![s] = 0]
  /\ scanPending' = [scanPending EXCEPT ![s] = <<>>]
  /\ UNCHANGED lastBlock
  /\ UNCHANGED <<chainVars, routerVars, mutexVars, agentOutside>>

\* getRequest of the next log has returned; only PENDING requests are kept
ScanLookup(s) ==
  /\ s \in PollScanners
  /\ scanPc[s] = "lookup"
  /\ LET r == Head(scanList[s]) IN
     \E ok \in BOOLEAN :
       scanPending' = [scanPending EXCEPT ![s] =
                         IF ok /\ reqStatus[r] = "PENDING" THEN Append(@, r) ELSE @]
  /\ scanList' = [scanList EXCEPT ![s] = Tail(@)]
  /\ scanPc' = [scanPc EXCEPT ![s] = IF Len(scanList[s]) = 1 THEN "returned" ELSE "lookup"]
  /\ UNCHANGED <<cursorFile, lastBlock, scanLatest, scanFrom>>
  /\ UNCHANGED <<chainVars, routerVars, mutexVars, agentOthers>>

\* fallbackPoll: pollPendingRequests has returned
FallbackDispatch ==
  /\ scanPc["fallback"] = "returned"
  /\ SetRouterState(RouteAll(RouterState, "fallback", scanPending["fallback"]))
  /\ scanPc' = [scanPc EXCEPT !["fallback"] = "idle"]
  /\ scanPending' = [scanPending EXCEPT !["fallback"] = <<>>]
  /\ UNCHANGED <<cursorFile, lastBlock, scanLatest, scanFrom, scanList>>
  /\ UNCHANGED <<chainVars, agentOthers>>

(***************************************************************************)
(* sweepStaleRequests after pollPendingRequests has returned.              *)
(***************************************************************************)
RECURSIVE StaleOnly(_)
StaleOnly(list) ==
  IF list = <<>> THEN <<>>
  ELSE (IF IsStale(now, reqCreatedAt[Head(list)]) THEN <<Head(list)>> ELSE <<>>)
       \o StaleOnly(Tail(list))

\* `pending.filter(...)`, then the loop starts unless nothing is stale
SweeperFilter ==
  /\ scanPc["sweeper"] = "returned"
  /\ scanList' = [scanList EXCEPT !["sweeper"] = StaleOnly(scanPending["sweeper"])]
  /\ scanPc' = [scanPc EXCEPT !["sweeper"] =
                  IF StaleOnly(scanPending["sweeper"]) = <<>> THEN "idle" ELSE "sweep"]
  /\ scanPending' = [scanPending EXCEPT !["sweeper"] = <<>>]
  /\ UNCHANGED <<cursorFile, lastBlock, scanLatest, scanFrom>>
  /\ UNCHANGED <<chainVars, routerVars, mutexVars, agentOthers>>

\* one iteration of `for (const req of stale)` up to its await
SweeperVisit ==
  /\ scanPc["sweeper"] = "sweep"
  /\ LET r == Head(scanList["sweeper"])
         st == RouterState
     IN IF AlreadyInProgress(inProgress, r)
        THEN /\ scanList' = [scanList EXCEPT !["sweeper"] = Tail(@)]
             /\ scanPc' = [scanPc EXCEPT !["sweeper"] =
                             IF Len(scanList["sweeper"]) = 1 THEN "idle" ELSE "sweep"]
             /\ dropped' = dropped \cup {r}
             /\ UNCHANGED <<inProgress, task, bcast, skipped, mutexVars>>
        ELSE /\ SetRouterState(
                  CancelCall([st EXCEPT !.bc = @ \cup {<<"request_timeout", r>>},
                                        !.inP = @ \cup {r}], <<"sweeper", r>>))
             /\ scanPc' = [scanPc EXCEPT !["sweeper"] = "sweepWait"]
             /\ UNCHANGED scanList
  /\ UNCHANGED <<cursorFile, lastBlock, scanLatest, scanFrom, scanPending>>
  /\ UNCHANGED <<chainVars, agentOthers>>

(***************************************************************************)
(* The tasks: handler, fulfillRequestOnChain, cancelRequestOnChain.        *)
(***************************************************************************)
\* a finally that leaves the id in the set
Finally_Kept(inP, r) == inP

\* `finally { inProgress.delete(requestId) }`
Finally(inP, r) == inP \ {r}

\* The closure has returned: withTxMutex releases its gate, and the finally
\* of routeRequest / of the sweeper loop deletes the id from the in-flight
\* set.  The sweeper loop goes on to its next item.
FinishTask(t) ==
  /\ task' = [task EXCEPT ![t] = IdleTask]
  /\ inProgress' = Finally(inProgress, t[2])
  /\ MutexRelease(task[t].gate)
  /\ IF t[1] = "sweeper"
     THEN /\ scanList' = [scanList EXCEPT !["sweeper"] = Tail(@)]
          /\ scanPc' = [scanPc EXCEPT !["sweeper"] =
                          IF Len(scanList["sweeper"]) = 1 THEN "idle" ELSE "sweep"]
          /\ UNCHANGED <<cursorFile, lastBlock, scanLatest, scanFrom, scanPending>>
     ELSE UNCHANGED scanVars

\* fulfillAlchemyRequest / fulfillOpenSeaRequest: the upstream API call has
\* returned; the handler submits through fulfillRequestOnChain, or gives up
HandlerReturns(t) ==
  /\ task[t].pc = "handler"
  /\ \E ok \in BOOLEAN :
       IF ok
       THEN /\ task' = [task EXCEPT ![t] =
                          [pc |-> "fQueued", prev |-> txMutexPromise["backend"],
                           gate |-> NewGate, tx |-> 0]]
            /\ MutexEnqueue("backend")
            /\ UNCHANGED inProgress
       ELSE /\ task' = [task EXCEPT ![t] = IdleTask]
            /\ inProgress' = Finally(inProgress, t[2])
            /\ UNCHANGED mutexVars
  /\ UNCHANGED <<bcast, dropped, skipped, chainVars, scanVars, agentOthers>>

\* fulfillRequestOnChain: the closure is invoked and reads the request
FulfillInvoke(t) ==
  /\ task[t].pc = "fQueued"
  /\ GateOpen(task[t].prev)
  /\ task' = [task EXCEPT ![t].pc = "fStatus", ![t].prev = 0]
  /\ MutexEnter(task[t].prev)
  /\ UNCHANGED <<inProgress, bcast, dropped, skipped, chainVars, scanVars, agentOthers>>

\* getRequest has returned: go on only when the request is PENDING
FulfillStatus(t) ==
  /\ task[t].pc = "fStatus"
  /\ \E ok \in BOOLEAN :
       IF ok /\ reqStatus[t[2]] = "PENDING"
       THEN /\ task' = [task EXCEPT ![t].pc = "fEstimate"]
            /\ UNCHANGED <<inProgress, scanVars, mutexVars>>
       ELSE FinishTask(t)
  /\ UNCHANGED <<bcast, dropped, skipped, chainVars, agentOthers>>

\* estimateGas has returned or thrown (the simulation reverts when the
\* request is no longer PENDING)
FulfillEstimate(t) ==
  /\ task[t].pc = "fEstimate"
  /\ \E ok \in BOOLEAN :
       IF ok /\ reqStatus[t[2]] = "PENDING"
       THEN /\ task' = [task EXCEPT ![t].pc = "fPrice"]
            /\ UNCHANGED <<inProgress, scanVars, mutexVars, skipped>>
       ELSE /\ FinishTask(t)
            /\ skipped' = skipped \cup {t[2]}
  /\ UNCHANGED <<bcast, dropped, chainVars, agentOthers>>

\* the profitability check: skip when unprofitable, go on when profitable or
\* when the price lookup failed
FulfillPrice(t) ==
  /\ task[t].pc = "fPrice"
  /\ \E res \in {"profitable", "unprofitable", "lookupFailed"} :
       IF res = "unprofitable"
       THEN /\ FinishTask(t)
            /\ skipped' = skipped \cup {t[2]}
       ELSE /\ task' = [task EXCEPT ![t].pc = "fWrite"]
            /\ UNCHANGED <<inProgress, scanVars, mutexVars, skipped>>
  /\ UNCHANGED <<bcast, dropped, chainVars, agentOthers>>

\* writeContract(fulfillRequest) has returned the hash, or thrown
FulfillWrite(t) ==
  /\ task[t].pc = "fWrite"
  /\ \E ok \in BOOLEAN :
       IF ok
       THEN /\ txs' = Append(txs, [kind |-> "fulfill", req |-> t[2], state |-> "pending"])
            /\ task' = [task EXCEPT ![t].pc = "fReceipt", ![t].tx = Len(txs) + 1]
            /\ UNCHANGED <<inProgress, scanVars, mutexVars>>
       ELSE /\ FinishTask(t)
            /\ UNCHANGED txs
  /\ UNCHANGED <<now, head, reqBlock, reqStatus, reqCreatedAt, reqEndpoint, reported>>
  /\ UNCHANGED <<bcast, dropped, skipped, agentOthers>>

\* waitForTransactionReceipt has returned the receipt, or thrown while the
\* transaction is still pending
FulfillReceipt(t) ==
  /\ task[t].pc = "fReceipt"
  /\ \/ \E outcome \in TxOutcomes(task[t].tx) :
          /\ Mined(task[t].tx, outcome)
          /\ IF outcome = "success"
             THEN /\ bcast' = bcast \cup {<<"request_fulfilled", t[2]>>}
                  /\ reported' = reported \cup {task[t].tx}
             ELSE UNCHANGED <<bcast, reported>>
     \/ UNCHANGED <<txs, reqStatus, bcast, reported>>
  /\ FinishTask(t)
  /\ UNCHANGED <<now, head, reqBlock, reqCreatedAt, reqEndpoint>>
  /\ UNCHANGED <<dropped, skipped, agentOthers>>

\* cancelRequestOnChain: the closure is invoked and calls writeContract
CancelInvoke(t) ==
  /\ task[t].pc = "cQueued"
  /\ GateOpen(task[t].prev)
  /\ task' = [task EXCEPT ![t].pc = "cWrite", ![t].prev = 0]
  /\ MutexEnter(task[t].prev)
  /\ UNCHANGED <<inProgress, bcast, dropped, skipped, chainVars, scanVars, agentOthers>>

\* writeContract(cancelRequest) has returned the hash, or thrown; with the
\* hash request_cancelled is broadcast and the hash is the result
CancelWrite(t) ==
  /\ task[t].pc = "cWrite"
  /\ \E ok \in BOOLEAN :
       IF ok
       THEN /\ txs' = Append(txs, [kind |-> "cancel", req |-> t[2], state |-> "pending"])
            /\ bcast' = bcast \cup {<<"request_cancelled", t[2]>>}
            /\ reported' = reported \cup {Len(txs) + 1}
       ELSE UNCHANGED <<txs, bcast, reported>>
  /\ FinishTask(t)
  /\ UNCHANGED <<now, head, reqBlock, reqStatus, reqCreatedAt, reqEndpoint>>
  /\ UNCHANGED <<dropped, skipped, agentOthers>>

AgentNext ==
  \/ Tick
  \/ \E r \in Requests : CreateRequest(r) \/ PeerFulfill(r) \/ OnRequestCreated(r)
  \/ \E i \in 1..Len(txs) : MineUnwatched(i)
  \/ WatcherPollBegin
  \/ WatcherLogs
  \/ WatcherPollError
  \/ \E s \in PollScanners : ScanBegin(s) \/ ScanLogs(s) \/ ScanLookup(s)
  \/ FallbackDispatch
  \/ SweeperFilter
  \/ SweeperVisit
  \/ \E t \in TaskIds :
       \/ HandlerReturns(t)
       \/ FulfillInvoke(t)
       \/ FulfillStatus(t)
       \/ FulfillEstimate(t)
       \/ FulfillPrice(t)
       \/ FulfillWrite(t)
       \/ FulfillReceipt(t)
       \/ CancelInvoke(t)
       \/ CancelWrite(t)

(***************************************************************************)
(* The keep-alive client: fulfill(subscriptionId).                         *)
(***************************************************************************)
KaCalls == 1..NKaCalls
Subs == 1..NSubs

IdleCall == [pc |-> "idle", sub |-> 0, prev |-> 0, gate |-> 0, res |-> 0]

KaInit ==
  /\ inFlight = {}
  /\ kaCall = [c \in KaCalls |-> IdleCall]
  /\ kaReady = [s \in Subs |-> TRUE]
  /\ kaTxs = <<>>

\* the call returns null (res 0) or throws
KaReturn(c, how) ==
  kaCall' = [kaCall EXCEPT ![c].pc = how, ![c].prev = 0, ![c].gate = 0]

\* `inFlight.has(subscriptionId)`
InFlightGuard(set, id) == id \in set

\* fulfill(s) is called: `if (inFlight.has(subscriptionId)) return null`,
\* then isReady is awaited
KaFulfill(c, s) ==
  /\ kaCall[c].pc = "idle"
  /\ IF InFlightGuard(inFlight, s)
     THEN kaCall' = [kaCall EXCEPT ![c].pc = "null", ![c].sub = s]
     ELSE kaCall' = [kaCall EXCEPT ![c].pc = "isReady", ![c].sub = s]
  /\ UNCHANGED <<inFlight, kaReady, kaTxs, mutexVars, kaOthers>>

\* isReady has returned or thrown
KaIsReady(c) ==
  /\ kaCall[c].pc = "isReady"
  /\ \E ok \in BOOLEAN :
       IF ~ok THEN KaReturn(c, "thrown")
       ELSE IF ~kaReady[kaCall[c].sub] THEN KaReturn(c, "null")
       ELSE kaCall' = [kaCall EXCEPT ![c].pc = "cost"]
  /\ UNCHANGED <<inFlight, kaReady, kaTxs, mutexVars, kaOthers>>

\* getSubscriptionCost has returned or thrown
KaCost(c) ==
  /\ kaCall[c].pc = "cost"
  /\ \E ok \in BOOLEAN :
       IF ok THEN kaCall' = [kaCall EXCEPT ![c].pc = "estimate"]
       ELSE KaReturn(c, "thrown")
  /\ UNCHANGED <<inFlight, kaReady, kaTxs, mutexVars, kaOthers>>

\* estimateGas has returned, or thrown (the simulation reverts when the
\* subscription is not ready)
KaEstimate(c) ==
  /\ kaCall[c].pc = "estimate"
  /\ \E ok \in BOOLEAN :
       IF ok /\ kaReady[kaCall[c].sub]
       THEN kaCall' = [kaCall EXCEPT ![c].pc = "price"]
       ELSE KaReturn(c, "null")
  /\ UNCHANGED <<inFlight, kaReady, kaTxs, mutexVars, kaOthers>>

\* the profitability check has ended; unless unprofitable the id is added
\* to the in-flight set and the write is chained on the SDK mutex
KaSubmit(c) ==
  /\ kaCall[c].pc = "price"
  /\ \E res \in {"profitable", "unprofitable", "lookupFailed"} :
       IF res = "unprofitable"
       THEN /\ KaReturn(c, "null")
            /\ UNCHANGED <<inFlight, mutexVars>>
       ELSE /\ inFlight' = inFlight \cup {kaCall[c].sub}
            /\ kaCall' = [kaCall EXCEPT ![c].pc = "queued",
                                        ![c].prev = PrevGate("sdk"),
                                        ![c].gate = NewGate]
            /\ MutexEnqueue("sdk")
  /\ UNCHANGED <<kaReady, kaTxs, kaOthers>>

\* the closure is invoked and calls writeContract
KaInvoke(c) ==
  /\ kaCall[c].pc = "queued"
  /\ GateOpen(kaCall[c].prev)
  /\ kaCall' = [kaCall EXCEPT ![c].pc = "write", ![c].prev = 0]
  /\ MutexEnter(kaCall[c].prev)
  /\ UNCHANGED <<inFlight, kaReady, kaTxs, kaOthers>>

\* writeContract has returned the hash, or thrown; the mutex is released,
\* `finally { inFlight.delete(subscriptionId) }`, the hash is the result
KaWrite(c) ==
  /\ kaCall[c].pc = "write"
  /\ \E ok \in BOOLEAN :
       IF ok
       THEN /\ kaTxs' = Append(kaTxs, [sub |-> kaCall[c].sub, state |-> "pending"])
            /\ kaCall' = [kaCall EXCEPT ![c].pc = "hash", ![c].gate = 0,
                                        ![c].res = Len(kaTxs) + 1]
       ELSE /\ KaReturn(c, "thrown")
            /\ UNCHANGED kaTxs
  /\ MutexRelease(kaCall[c].gate)
  /\ inFlight' = inFlight \ {kaCall[c].sub}
  /\ UNCHANGED <<kaReady, kaOthers>>

\* the contract executes fulfill: it reverts unless the subscription is
\* ready, and after a success the interval has to pass again
KaMine(i) ==
  /\ i \in 1..Len(kaTxs)
  /\ kaTxs[i].state = "pending"
  /\ IF kaReady[kaTxs[i].sub]
     THEN /\ kaTxs' = [kaTxs EXCEPT ![i].state = "success"]
          /\ kaReady' = [kaReady EXCEPT ![kaTxs[i].sub] = FALSE]
     ELSE /\ kaTxs' = [kaTxs EXCEPT ![i].state = "reverted"]
          /\ UNCHANGED kaReady
  /\ UNCHANGED <<inFlight, kaCall, mutexVars, kaOthers>>

KeepAliveNext ==
  \/ \E c \in KaCalls :
       \/ \E s \in Subs : KaFulfill(c, s)
       \/ KaIsReady(c)
       \/ KaCost(c)
       \/ KaEstimate(c)
       \/ KaSubmit(c)
       \/ KaInvoke(c)
       \/ KaWrite(c)
  \/ \E i \in 1..Len(kaTxs) : KaMine(i)

(***************************************************************************)
(* Overlapping runs of the scan loops.  setInterval starts a run of the    *)
(* loop body every period whether or not the previous run has returned, so *)
(* up to NRuns runs of one body are in progress.  Only what the runs do to *)
(* the cursors and which blocks the watcher dispatches is kept here; the   *)
(* routing of the dispatched requests is the agent component above.  Every *)
(* block carries a RequestCreated log.                                     *)
(***************************************************************************)
RunIds == Scanners \X (1..NRuns)

IdleRun == [pc |-> "idle", latest |-> 0, from |-> 0, floor |-> 0]

RunInit ==
  /\ run = [k \in RunIds |-> IdleRun]
  /\ wPersisted = 0
  /\ dispatchLog = {}
  /\ restarts = 0

\* `fs.writeFileSync(cursorPath(label), block.toString())`
SaveCursor(file, label, block) == [file EXCEPT ![label] = block]

\* `BigInt(readFileSync(...))`, 0 when there is no file or the value is not
\* positive
LoadCursor(file, label) == IF file[label] > 0 THEN file[label] ELSE 0

Max(a, b) == IF a >= b THEN a ELSE b

\* a run that starts takes the first free slot of its loop
FirstFree(s, k) ==
  /\ run[<<s, k>>].pc = "idle"
  /\ \A j \in 1..(k - 1) : run[<<s, j>>].pc # "idle"

\* a block is mined
NewBlock ==
  /\ head < MaxHead
  /\ head' = head + 1
  /\ UNCHANGED <<cursorFile, lastBlock, runVars, runOthers>>

\* watcher poll, slot k: getBlockNumber has returned.  With lastBlock 0 the
\* poll sets lastBlock to the current block, saves it and returns; with no
\* new block it returns (left out: nothing changes).
PollGetBlock(k) ==
  LET id == <<"watcher", k>> IN
  /\ FirstFree("watcher", k)
  /\ IF lastBlock = 0
     THEN /\ lastBlock' = head
          /\ cursorFile' = SaveCursor(cursorFile, "hub-watcher", head)
          /\ wPersisted' = Max(wPersisted, head)
          /\ UNCHANGED run
     ELSE /\ head > lastBlock
          /\ run' = [run EXCEPT ![id] = [pc |-> "logs", latest |-> head,
                                         from |-> lastBlock + 1, floor |-> wPersisted]]
          /\ UNCHANGED <<lastBlock, cursorFile, wPersisted>>
  /\ UNCHANGED <<head, dispatchLog, restarts, runOthers>>

\* watcher poll, slot k: getLogs has returned and every log is passed to the
\* callback, then `lastBlock = currentBlock; saveCursor(...)`; or getLogs
\* has thrown
PollGetLogs(k) ==
  LET id == <<"watcher", k>> IN
  /\ run[id].pc = "logs"
  /\ \E ok \in BOOLEAN :
       IF ok
       THEN /\ dispatchLog' = dispatchLog \cup
                  {<<b, run[id].floor>> : b \in run[id].from .. run[id].latest}
            /\ lastBlock' = run[id].latest
            /\ cursorFile' = SaveCursor(cursorFile, "hub-watcher", run[id].latest)
            /\ wPersisted' = Max(wPersisted, run[id].latest)
       ELSE UNCHANGED <<dispatchLog, lastBlock, cursorFile, wPersisted>>
  /\ run' = [run EXCEPT ![id] = IdleRun]
  /\ UNCHANGED <<head, restarts, runOthers>>

\* pollPendingRequests(label), slot k: getBlockNumber has returned and the
\* cursor is loaded; `if (fromBlock > latestBlock) return []` is left out.
\* Of the locals only latestBlock is used after getLogs (it is what is
\* saved), so fromBlock is not kept.
PendingGetBlock(s, k) ==
  LET id == <<s, k>>
      from == ScanFromBlock(LoadCursor(cursorFile, LabelOf(s)), head)
  IN /\ s \in PollScanners
     /\ FirstFree(s, k)
     /\ from <= head
     /\ run' = [run EXCEPT ![id] = [pc |-> "logs", latest |-> head,
                                    from |-> 0, floor |-> 0]]
     /\ UNCHANGED <<head, cursorFile, lastBlock, wPersisted, dispatchLog, restarts, runOthers>>

\* pollPendingRequests(label), slot k: getLogs has returned and
\* `saveCursor(cursorLabel, latestBlock)`; or getLogs has thrown
PendingGetLogs(s, k) ==
  LET id == <<s, k>> IN
  /\ s \in PollScanners
  /\ run[id].pc = "logs"
  /\ \E ok \in BOOLEAN :
       IF ok
       THEN cursorFile' = SaveCursor(cursorFile, LabelOf(s), run[id].latest)
       ELSE UNCHANGED cursorFile
  /\ run' = [run EXCEPT ![id] = IdleRun]
  /\ UNCHANGED <<head, lastBlock, wPersisted, dispatchLog, restarts, runOthers>>

\* the process is restarted: the runs in progress are gone and
\* watchRequestCreated starts with `lastBlock = loadCursor('hub-watcher')`
Restart ==
  /\ restarts < MaxRestarts
  /\ restarts' = restarts + 1
  /\ run' = [k \in RunIds |-> IdleRun]
  /\ lastBlock' = LoadCursor(cursorFile, "hub-watcher")
  /\ UNCHANGED <<head, cursorFile, wPersisted, dispatchLog, runOthers>>

CursorNext ==
  \/ NewBlock
  \/ Restart
  \/ \E k \in 1..NRuns :
       \/ PollGetBlock(k)
       \/ PollGetLogs(k)
       \/ \E s \in PollScanners : PendingGetBlock(s, k) \/ PendingGetLogs(s, k)

(***************************************************************************)
(* Error backoff of the pollers.  Which path a poll takes (first run, no   *)
(* new block, scanned, thrown) depends on the chain and the RPC provider   *)
(* and is left open here.                                                  *)
(***************************************************************************)
Pollers == {"watcher", "sdk"}

\* `const MAX_BACKOFF_MS = 30_000`, `pollIntervalMs = 2000`,
\* `maxBackoffMs = 30000`
MAX_BACKOFF_MS == 30000
pollIntervalMs == 2000
maxBackoffMs == 30000

NoRecovery == [state |-> "none", from |-> 0, latest |-> 0]

\* the watcher has polled with success: blocks from..latest were scanned
\* (from above latest: none); kept for the first success after a reset
Recovered(from, latest) ==
  recovery' = IF recovery.state = "reset"
              THEN [state |-> "recovered", from |-> from, latest |-> latest]
              ELSE recovery

BackoffInit ==
  /\ consecutiveErrors = 0
  /\ currentPollMs = 2000
  /\ errorCount = 0
  /\ currentInterval = pollIntervalMs
  /\ streak = [p \in Pollers |-> [n |-> 0, base |-> 2000, from |-> 0]]
  /\ recovery = NoRecovery

Min(a, b) == IF a <= b THEN a ELSE b

RECURSIVE Pow2(_)
Pow2(n) == IF n = 0 THEN 1 ELSE 2 * Pow2(n - 1)

\* the poll of poller p has thrown once more / has not thrown
StreakGrows(p, interval, count) ==
  streak' = [streak EXCEPT ![p] =
               [n |-> @.n + 1,
                base |-> IF @.n = 0 THEN interval ELSE @.base,
                from |-> IF @.n = 0 THEN count ELSE @.from]]

StreakEnds(p) == streak' = [streak EXCEPT ![p].n = 0]

\* the doubling without the ceiling
WatcherBackoff_NoCeiling(count, interval) ==
  IF count >= 3 THEN interval * 2 ELSE interval

\* `Math.min(currentPollMs * 2, MAX_BACKOFF_MS)` once three errors are counted
WatcherBackoff(count, interval) ==
  IF count >= 3 THEN Min(interval * 2, MAX_BACKOFF_MS) ELSE interval

\* watchRequestCreated: the catch block of poll
WatcherPollThrows ==
  /\ consecutiveErrors < MaxErrors
  /\ consecutiveErrors' = consecutiveErrors + 1
  /\ currentPollMs' = WatcherBackoff(consecutiveErrors + 1, currentPollMs)
  /\ StreakGrows("watcher", currentPollMs, consecutiveErrors)
  /\ IF consecutiveErrors + 1 >= 10
     THEN /\ lastBlock' = 0
          /\ recovery' = [NoRecovery EXCEPT !.state = "reset"]
     ELSE UNCHANGED <<lastBlock, recovery>>
  /\ UNCHANGED <<errorCount, currentInterval, head, cursorFile, watcherOthers>>

\* watchRequestCreated: poll returns early (first run with no cursor, or no
\* new block): `consecutiveErrors = 0; return`
WatcherPollReturnsEarly ==
  /\ IF lastBlock = 0
     THEN /\ lastBlock' = head
          /\ cursorFile' = [cursorFile EXCEPT !["hub-watcher"] = head]
          /\ Recovered(head + 1, head)
     ELSE /\ head <= lastBlock
          /\ UNCHANGED <<lastBlock, cursorFile, recovery>>
  /\ consecutiveErrors' = 0
  /\ StreakEnds("watcher")
  /\ UNCHANGED <<currentPollMs, errorCount, currentInterval, head, watcherOthers>>

\* watchRequestCreated: poll has scanned the new blocks; the counter is
\* reset and the interval restored when errors were counted
WatcherPollScanned ==
  /\ lastBlock # 0
  /\ head > lastBlock
  /\ lastBlock' = head
  /\ cursorFile' = [cursorFile EXCEPT !["hub-watcher"] = head]
  /\ Recovered(lastBlock + 1, head)
  /\ consecutiveErrors' = 0
  /\ currentPollMs' = IF consecutiveErrors > 0 /\ currentPollMs > 2000
                      THEN 2000 ELSE currentPollMs
  /\ StreakEnds("watcher")
  /\ UNCHANGED <<errorCount, currentInterval, head, watcherOthers>>

\* `Math.min(pollIntervalMs * Math.pow(2, errorCount - 2), maxBackoffMs)`
PollerBackoff(count, interval) ==
  IF count >= 3 THEN Min(pollIntervalMs * Pow2(count - 2), maxBackoffMs) ELSE interval

\* createEventPoller: the catch block of poll
PollerPollThrows ==
  /\ errorCount < MaxErrors
  /\ errorCount' = errorCount + 1
  /\ currentInterval' = PollerBackoff(errorCount + 1, currentInterval)
  /\ StreakGrows("sdk", currentInterval, errorCount)
  /\ UNCHANGED <<consecutiveErrors, currentPollMs, recovery, backoffOthers>>

\* createEventPoller: `if (currentBlock <= lastBlock) return`
PollerPollReturnsEarly ==
  /\ StreakEnds("sdk")
  /\ UNCHANGED <<consecutiveErrors, currentPollMs, errorCount, currentInterval, recovery, backoffOthers>>

\* createEventPoller: poll has scanned; `if (errorCount > 0)` the counter
\* and the interval are reset
PollerPollScanned ==
  /\ errorCount' = 0
  /\ currentInterval' = IF errorCount > 0 THEN pollIntervalMs ELSE currentInterval
  /\ StreakEnds("sdk")
  /\ UNCHANGED <<consecutiveErrors, currentPollMs, recovery, backoffOthers>>

BackoffNext ==
  \/ NewBlock
  \/ WatcherPollThrows
  \/ WatcherPollReturnsEarly
  \/ WatcherPollScanned
  \/ PollerPollThrows
  \/ PollerPollReturnsEarly
  \/ PollerPollScanned

(***************************************************************************)
(* routeRequest called directly (by onRequestCreated or by the fallback    *)
(* poll) for PENDING requests of every age around TIMEOUT_MS and of every  *)
(* endpoint; the clock stands still while the tasks run.                   *)
(***************************************************************************)
RouteSources == {"watcher", "fallback"}

RouterInit ==
  /\ reqCreatedAt \in [Requests -> 0..MaxCreatedAt]
  /\ \E age \in (TIMEOUT_MS - AgeSpread)..(TIMEOUT_MS + AgeSpread),
        c \in 0..MaxCreatedAt : now = c * 1000 + age
  /\ head = NReq + 1
  /\ reqBlock = [r \in Requests |-> r + 1]
  /\ reqStatus = [r \in Requests |-> "PENDING"]
  /\ reqEndpoint \in [Requests -> EndpointIds]
  /\ txs = <<>>
  /\ reported = {}
  /\ cursorFile = [l \in Labels |-> 0]
  /\ lastBlock = 0
  /\ scanPc = [s \in Scanners |-> "idle"]
  /\ scanLatest = [s \in Scanners |-> 0]
  /\ scanFrom = [s \in Scanners |-> 0]
  /\ scanList = [s \in Scanners |-> <<>>]
  /\ scanPending = [s \in Scanners |-> <<>>]
  /\ inProgress = {}
  /\ task = [t \in TaskIds |-> IdleTask]
  /\ bcast = {}
  /\ dropped = {}
  /\ skipped = {}
  /\ firstScan = [s \in Scanners |-> NoScan]

\* routeRequest(req) is called with a request read as PENDING
RouteCall(src, r) ==
  /\ src \in RouteSources
  /\ task[<<src, r>>].pc = "idle"
  /\ reqStatus[r] = "PENDING"
  /\ Len(txs) < MaxTxs
  /\ SetRouterState(RouteRequest(RouterState, src, r))
  /\ UNCHANGED <<chainVars, scanVars, agentOthers>>

RouterNext ==
  \/ \E src \in RouteSources, r \in Requests : RouteCall(src, r)
  \/ \E i \in 1..Len(txs) : MineUnwatched(i)
  \/ \E t \in TaskIds :
       \/ HandlerReturns(t)
       \/ FulfillInvoke(t)
       \/ FulfillStatus(t)
       \/ FulfillEstimate(t)
       \/ FulfillPrice(t)
       \/ FulfillWrite(t)
       \/ FulfillReceipt(t)
       \/ CancelInvoke(t)
       \/ CancelWrite(t)

(***************************************************************************)
(* The profitability gates.  The amounts are far below 2^53, where the     *)
(* Number(...) conversions of the keep-alive and hub-service paths are     *)
(* exact.                                                                  *)
(***************************************************************************)
Gates == {"sdk", "keepAlive", "hubService"}

\* `lossToleranceUsdc = 5000n`
lossToleranceUsdc == 5000

ProfitInit ==
  /\ reimbursementUsdc \in 0..MaxReimb
  /\ estimatedCostUsdc \in
       (lossToleranceUsdc - CostSpread)..(lossToleranceUsdc + MaxReimb + CostSpread)
  /\ ethPrice \in {0, 1}
  /\ lookupOk \in BOOLEAN
  /\ decision = [g \in Gates |-> "none"]

\* no gate is in use: the state of this component in the other components
ProfitDone ==
  /\ reimbursementUsdc = 0
  /\ estimatedCostUsdc = 0
  /\ ethPrice = 0
  /\ lookupOk = TRUE
  /\ decision = [g \in Gates |-> "none"]

\* checkTxProfitability: the cost is 0 without a price;
\* `isProfitable = profitUsdc >= -lossToleranceUsdc`
SdkIsProfitable(reimb, cost, price) ==
  LET estimated == IF price > 0 THEN cost ELSE 0
      profitUsdc == reimb - estimated
  IN profitUsdc >= -lossToleranceUsdc

\* keepAlive.fulfill: `if (ethPrice > 0n) { ... if (profitUsdc < -5000) return null }`
KeepAliveProceeds(payout, cost, price) ==
  LET profitUsdc == payout - cost
  IN ~(price > 0 /\ profitUsdc < -5000)

\* the hub-service gate that also skips at the tolerance itself
HubServiceProceeds_Strict(reimb, cost, price) ==
  LET profitUsdc == reimb - cost
  IN ~(price > 0 /\ profitUsdc <= -5000)

\* fulfillRequestOnChain: `if (ethPrice && ethPrice > 0n) { ... if (profitUsdc < -5000) skip }`
HubServiceProceeds(reimb, cost, price) ==
  LET profitUsdc == reimb - cost
  IN ~(price > 0 /\ profitUsdc < -5000)

Decide(g, d) ==
  /\ decision[g] = "none"
  /\ decision' = [decision EXCEPT ![g] = d]
  /\ UNCHANGED <<reimbursementUsdc, estimatedCostUsdc, ethPrice, lookupOk, profitOthers>>

\* checkTxProfitability returns isProfitable, or throws with the lookup
SdkGate ==
  Decide("sdk",
         IF ~lookupOk THEN "thrown"
         ELSE IF SdkIsProfitable(reimbursementUsdc, estimatedCostUsdc, ethPrice)
         THEN "proceed" ELSE "skip")

\* the profitability check of keepAlive.fulfill; a failed lookup proceeds
KeepAliveGate ==
  Decide("keepAlive",
         IF ~lookupOk THEN "proceed"
         ELSE IF KeepAliveProceeds(reimbursementUsdc, estimatedCostUsdc, ethPrice)
         THEN "proceed" ELSE "skip")

\* the profitability check of fulfillRequestOnChain; a failed lookup proceeds
HubServiceGate ==
  Decide("hubService",
         IF ~lookupOk THEN "proceed"
         ELSE IF HubServiceProceeds(reimbursementUsdc, estimatedCostUsdc, ethPrice)
         THEN "proceed" ELSE "skip")

ProfitNext ==
  \/ SdkGate
  \/ KeepAliveGate
  \/ HubServiceGate

(***************************************************************************)
(* The pre-flight of a fulfill.  Every await of the three functions is a   *)
(* step; a lookup returns or throws.                                       *)
(***************************************************************************)
Paths == {"hubService", "sdkHub", "keepAlive"}
Attempts == Paths \X (1..NAttempts)

IdleAttempt ==
  [pc |-> "idle", prev |-> 0, gate |-> 0, est |-> "none", status |-> "none",
   lookup |-> "none"]

PreflightInit ==
  /\ attempt = [a \in Attempts |-> IdleAttempt]
  /\ submitted = {}

\* the mutex instance the path's write goes through
MutexOf(path) == IF path = "hubService" THEN "backend" ELSE "sdk"

\* withTxMutex(fn) is called: pc becomes "queued"
ChainWith(a, rec) ==
  /\ attempt' = [attempt EXCEPT ![a] = [rec EXCEPT !.pc = "queued",
                                                   !.prev = PrevGate(MutexOf(a[1])),
                                                   !.gate = NewGate]]
  /\ MutexEnqueue(MutexOf(a[1]))

Chain(a, est) == ChainWith(a, [attempt[a] EXCEPT !.est = est])

\* the function returns null: `return null`
ReturnNullWith(a, rec) ==
  attempt' = [attempt EXCEPT ![a] = [rec EXCEPT !.pc = "null"]]

ReturnNull(a, est) == ReturnNullWith(a, [attempt[a] EXCEPT !.est = est])

\* the pre-flight estimateGas of fulfillRequestOnChain with a catch that
\* goes on to the write
EstimateGasCatch_Proceeds(ok) == "price"

\* fulfillRequestOnChain: `try { estimatedGas = ... estimateGas ... }
\* catch { ...; return null }`
EstimateGasCatch(ok) == IF ok THEN "price" ELSE "null"

\* what the profitability check has met: the ETH price lookup has failed
LookupOf(res) == IF res \in {"lookupFailed", "lookupThrows"} THEN "failed" ELSE "ok"

\* fulfillRequestOnChain(requestId, ...): the whole body runs in withTxMutex
HubServiceFulfill(a) ==
  /\ a[1] = "hubService"
  /\ attempt[a].pc = "idle"
  /\ Chain(a, attempt[a].est)
  /\ UNCHANGED <<submitted, preflightOthers>>

\* fulfillRequest(requestId, ...) of the SDK hub client: with the profit
\* check checkProfitability is awaited, without it the gas estimation
SdkHubFulfill(a) ==
  /\ a[1] = "sdkHub"
  /\ attempt[a].pc = "idle"
  /\ \E skipProfitCheck \in BOOLEAN :
       attempt' = [attempt EXCEPT ![a].pc =
                     IF skipProfitCheck THEN "estimate" ELSE "checkProfit"]
  /\ UNCHANGED <<submitted, mutexVars, preflightOthers>>

\* fulfill(subscriptionId) of the keep-alive client, after isReady and the
\* cost lookup: the gas estimation is awaited
KeepAliveFulfill(a) ==
  /\ a[1] = "keepAlive"
  /\ attempt[a].pc = "idle"
  /\ attempt' = [attempt EXCEPT ![a].pc = "estimate"]
  /\ UNCHANGED <<submitted, mutexVars, preflightOthers>>

\* the closure of fulfillRequestOnChain is invoked; getRequest returns
\* PENDING, or the closure returns null
HubServiceInvoke(a) ==
  /\ a[1] = "hubService"
  /\ attempt[a].pc = "queued"
  /\ GateOpen(attempt[a].prev)
  /\ attempt' = [attempt EXCEPT ![a].pc = "status", ![a].prev = 0]
  /\ MutexEnter(attempt[a].prev)
  /\ UNCHANGED <<submitted, preflightOthers>>

\* the closure returns: `.finally(() => resolve!())`
HubServiceReturn(a, pc, est) ==
  /\ attempt' = [attempt EXCEPT ![a].pc = pc, ![a].gate = 0, ![a].est = est]
  /\ MutexRelease(attempt[a].gate)

HubServiceStatus(a) ==
  /\ a[1] = "hubService"
  /\ attempt[a].pc = "status"
  /\ \E pending \in BOOLEAN :
       IF pending
       THEN /\ attempt' = [attempt EXCEPT ![a].pc = "estimate", ![a].status = "PENDING"]
            /\ UNCHANGED mutexVars
       ELSE HubServiceReturn(a, "null", attempt[a].est)
  /\ UNCHANGED <<submitted, preflightOthers>>

\* estimateGas has returned or thrown
HubServiceEstimate(a) ==
  /\ a[1] = "hubService"
  /\ attempt[a].pc = "estimate"
  /\ \E ok \in BOOLEAN :
       LET est == IF ok THEN "ok" ELSE "failed" IN
       IF EstimateGasCatch(ok) = "null"
       THEN HubServiceReturn(a, "null", est)
       ELSE /\ attempt' = [attempt EXCEPT ![a].pc = "price", ![a].est = est]
            /\ UNCHANGED mutexVars
  /\ UNCHANGED <<submitted, preflightOthers>>

\* the profitability check of the hub service: unprofitable returns null,
\* profitable or a failed lookup goes on to writeContract
HubServicePrice(a) ==
  /\ a[1] = "hubService"
  /\ attempt[a].pc = "price"
  /\ \E res \in {"profitable", "unprofitable", "lookupFailed"} :
       IF res = "unprofitable"
       THEN /\ HubServiceReturn(a, "null", attempt[a].est)
            /\ UNCHANGED submitted
       ELSE /\ attempt' = [attempt EXCEPT ![a].pc = "write",
                                           ![a].lookup = LookupOf(res)]
            /\ submitted' = submitted \cup {a}
            /\ UNCHANGED mutexVars
  /\ UNCHANGED preflightOthers

\* writeContract and the wait for the receipt have ended
HubServiceWrite(a) ==
  /\ a[1] = "hubService"
  /\ attempt[a].pc = "write"
  /\ \E ok \in BOOLEAN :
       HubServiceReturn(a, IF ok THEN "hash" ELSE "null", attempt[a].est)
  /\ UNCHANGED <<submitted, preflightOthers>>

\* checkProfitability (checkTxProfitability) has returned or thrown: its
\* estimateGas or a price lookup throws, or the result is unprofitable, and
\* fulfillRequest returns null; otherwise the gas estimation is awaited
SdkHubCheckProfitability(a) ==
  /\ a[1] = "sdkHub"
  /\ attempt[a].pc = "checkProfit"
  /\ \E res \in {"estimateThrows", "lookupThrows", "unprofitable", "profitable"} :
       CASE res = "estimateThrows" -> ReturnNull(a, "failed")
         [] res = "profitable" ->
              attempt' = [attempt EXCEPT ![a].pc = "estimate", ![a].est = "ok"]
         [] OTHER ->
              ReturnNullWith(a, [attempt[a] EXCEPT !.est = "ok",
                                                   !.lookup = LookupOf(res)])
  /\ UNCHANGED <<submitted, mutexVars, preflightOthers>>

\* `try { ... estimateGas ... } catch { return null }`, then
\* `return withTxMutex(() => wc.writeContract(...))`
SdkHubEstimate(a) ==
  /\ a[1] = "sdkHub"
  /\ attempt[a].pc = "estimate"
  /\ \E ok \in BOOLEAN :
       IF ok
       THEN Chain(a, "ok")
       ELSE /\ ReturnNull(a, "failed")
            /\ UNCHANGED mutexVars
  /\ UNCHANGED <<submitted, preflightOthers>>

\* keep-alive: `try { ... estimateGas ... } catch { return null }`
KeepAliveEstimate(a) ==
  /\ a[1] = "keepAlive"
  /\ attempt[a].pc = "estimate"
  /\ \E ok \in BOOLEAN :
       IF ok
       THEN attempt' = [attempt EXCEPT ![a].pc = "price", ![a].est = "ok"]
       ELSE ReturnNull(a, "failed")
  /\ UNCHANGED <<submitted, mutexVars, preflightOthers>>

\* keep-alive: the profitability check, then the write is chained
KeepAlivePrice(a) ==
  /\ a[1] = "keepAlive"
  /\ attempt[a].pc = "price"
  /\ \E res \in {"profitable", "unprofitable", "lookupFailed"} :
       IF res = "unprofitable"
       THEN /\ ReturnNull(a, attempt[a].est)
            /\ UNCHANGED mutexVars
       ELSE ChainWith(a, [attempt[a] EXCEPT !.lookup = LookupOf(res)])
  /\ UNCHANGED <<submitted, preflightOthers>>

\* the SDK closure `() => wc.writeContract(...)` is invoked
SdkInvoke(a) ==
  /\ a[1] \in {"sdkHub", "keepAlive"}
  /\ attempt[a].pc = "queued"
  /\ GateOpen(attempt[a].prev)
  /\ attempt' = [attempt EXCEPT ![a].pc = "write", ![a].prev = 0]
  /\ submitted' = submitted \cup {a}
  /\ MutexEnter(attempt[a].prev)
  /\ UNCHANGED preflightOthers

\* writeContract has returned the hash or thrown; the mutex is released
SdkWrite(a) ==
  /\ a[1] \in {"sdkHub", "keepAlive"}
  /\ attempt[a].pc = "write"
  /\ \E ok \in BOOLEAN :
       attempt' = [attempt EXCEPT ![a].pc = IF ok THEN "hash" ELSE "thrown",
                                  ![a].gate = 0]
  /\ MutexRelease(attempt[a].gate)
  /\ UNCHANGED <<submitted, preflightOthers>>

PreflightNext ==
  \E a \in Attempts :
    \/ HubServiceFulfill(a)
    \/ HubServiceInvoke(a)
    \/ HubServiceStatus(a)
    \/ HubServiceEstimate(a)
    \/ HubServicePrice(a)
    \/ HubServiceWrite(a)
    \/ SdkHubFulfill(a)
    \/ SdkHubCheckProfitability(a)
    \/ SdkHubEstimate(a)
    \/ KeepAliveFulfill(a)
    \/ KeepAliveEstimate(a)
    \/ KeepAlivePrice(a)
    \/ SdkInvoke(a)
    \/ SdkWrite(a)

(***************************************************************************)
(* The state cache.  refreshCache awaits its fetches in two waves          *)
(* (Promise.allSettled), builds the snapshot and assigns it to             *)
(* cachedState; the readers are synchronous.  Three keys stand for the     *)
(* snapshot: hubEndpoints and staking come from the first wave,            *)
(* hubRequests from the request scan of the second wave.                   *)
(***************************************************************************)
CacheKeys == {"hubEndpoints", "staking", "hubRequests"}
Wave1 == {"hubEndpoints", "staking"}
Wave2 == {"hubRequests"}

\* `const MAX_STALE_MS = 30_000`
MAX_STALE_MS == 30000

\* `let cachedState = null`
NullState == [k \in CacheKeys |-> -1]

IdleRefresh == [pc |-> "idle", gen |-> 0, start |-> 0,
                results |-> [k \in CacheKeys |-> "none"]]

NoRead == [fn |-> "none", key |-> "none", snap |-> NullState, val |-> 0, cacheAgeMs |-> 0]

CacheInit ==
  /\ dateNow = CacheTickMs
  /\ cachedState = NullState
  /\ lastRefreshMs = 0
  /\ refreshing = FALSE
  /\ refresh = IdleRefresh
  /\ refreshCount = 0
  /\ published = {}
  /\ lastGood = [k \in CacheKeys |-> 0]
  /\ seen = NoRead
  /\ forced = [pc |-> "idle", since |-> 0, snap |-> 0]

\* time passes
CacheTick ==
  /\ dateNow < CacheTickMs * (MaxCacheTicks + 1)
  /\ dateNow' = dateNow + CacheTickMs
  /\ UNCHANGED <<cachedState, lastRefreshMs, refreshing, refresh, refreshCount,
                 published, lastGood, seen, forced, cacheOthers>>

\* refreshCache(): `if (refreshing) return; refreshing = true;
\* const start = Date.now()`, then the first wave is awaited
RefreshCache ==
  IF refreshing
  THEN UNCHANGED <<refreshing, refresh, refreshCount>>
  ELSE /\ refreshCount < MaxRefreshes
       /\ refreshing' = TRUE
       /\ refreshCount' = refreshCount + 1
       /\ refresh' = [pc |-> "wave1", gen |-> refreshCount + 1, start |-> dateNow,
                      results |-> [k \in CacheKeys |->
                                     IF k \in Wave1 THEN "pending" ELSE "none"]]

\* startCacheRefresh: the initial refreshCache()
StartCacheRefresh ==
  /\ refreshCount = 0
  /\ RefreshCache
  /\ UNCHANGED <<dateNow, cachedState, lastRefreshMs, published, lastGood, seen,
                 forced, cacheOthers>>

\* pollAndRefresh, started by setInterval: a full refresh when the snapshot
\* is stale or when checkDelta reports a change
PollAndRefresh ==
  /\ refreshCount > 0
  /\ \E changed \in BOOLEAN :
       LET stale == dateNow - lastRefreshMs > MAX_STALE_MS IN
       /\ stale \/ changed
       /\ RefreshCache
  /\ UNCHANGED <<dateNow, cachedState, lastRefreshMs, published, lastGood, seen,
                 forced, cacheOthers>>

\* the refresh whose snapshot is the published one (0: none)
PublishedGen(pub) ==
  IF pub = {} THEN 0 ELSE CHOOSE g \in pub : \A h \in pub : h <= g

\* forceRefresh(): `await refreshCache()`.  The call resolves when
\* refreshCache returns: at once when a refresh is in progress, after the
\* finally block of the refresh it started otherwise.  The calls of the one
\* caller modelled follow one another.
ForceRefresh ==
  /\ refreshCount > 0
  /\ forced.pc # "waiting"
  /\ RefreshCache
  /\ forced' = IF refreshing
               THEN [pc |-> "resolved", since |-> refreshCount,
                     snap |-> PublishedGen(published)]
               ELSE [pc |-> "waiting", since |-> refreshCount, snap |-> 0]
  /\ UNCHANGED <<dateNow, cachedState, lastRefreshMs, published, lastGood, seen,
                 cacheOthers>>

\* one fetch of the wave that is awaited settles, fulfilled or rejected
FetchSettles(k) ==
  /\ refresh.results[k] = "pending"
  /\ \E ok \in BOOLEAN :
       refresh' = [refresh EXCEPT !.results[k] = IF ok THEN "ok" ELSE "failed"]
  /\ UNCHANGED <<dateNow, cachedState, lastRefreshMs, refreshing, refreshCount,
                 published, lastGood, seen, forced, cacheOthers>>

\* `val(r) = r.status === 'fulfilled' ? r.value : null`
Val(results, gen, k) == IF results[k] = "ok" THEN gen ELSE 0

\* the object literal assigned to cachedState: every key from this refresh
Snapshot(results, gen) == [k \in CacheKeys |-> Val(results, gen, k)]

\* a swap-in that writes the new snapshot into the old object key by key,
\* here caught after the first key
SwapIn_KeyByKey(old, new) ==
  [k \in CacheKeys |-> IF k = "staking" THEN new[k] ELSE old[k]]

\* `cachedState = { ... }`: one assignment of a fresh object
SwapIn(old, new) == new

\* the publication time taken before the fetches
PublishedAt_Start(start, nowMs) == start

\* `lastRefreshMs = Date.now()`
PublishedAt(start, nowMs) == nowMs

\* the snapshot is built and swapped in, lastRefreshMs is set and
\* `finally { refreshing = false }`; when building throws only the finally runs
Publish ==
  \E throws \in BOOLEAN :
    /\ IF throws
       THEN UNCHANGED <<cachedState, lastRefreshMs, published, lastGood>>
       ELSE /\ cachedState' = SwapIn(cachedState, Snapshot(refresh.results, refresh.gen))
            /\ lastRefreshMs' = PublishedAt(refresh.start, dateNow)
            /\ published' = published \cup {refresh.gen}
            /\ lastGood' = [k \in CacheKeys |->
                              IF refresh.results[k] = "ok" THEN refresh.gen
                              ELSE lastGood[k]]
    /\ refreshing' = FALSE
    /\ refresh' = IdleRefresh
    /\ forced' = IF forced.pc = "waiting"
                 THEN [forced EXCEPT !.pc = "resolved",
                                     !.snap = IF throws THEN PublishedGen(published)
                                              ELSE refresh.gen]
                 ELSE forced

\* the first Promise.allSettled has resolved: with endpoints the second
\* wave is awaited, without them the snapshot is published
Wave1Settled ==
  /\ refresh.pc = "wave1"
  /\ \A k \in Wave1 : refresh.results[k] # "pending"
  /\ IF refresh.results["hubEndpoints"] = "ok"
     THEN /\ refresh' = [refresh EXCEPT !.pc = "wave2",
                                        !.results = [k \in CacheKeys |->
                                           IF k \in Wave2 THEN "pending" ELSE @[k]]]
          /\ UNCHANGED <<cachedState, lastRefreshMs, refreshing, published, lastGood,
                         forced>>
     ELSE Publish
  /\ UNCHANGED <<dateNow, refreshCount, seen, cacheOthers>>

\* the second Promise.allSettled has resolved
Wave2Settled ==
  /\ refresh.pc = "wave2"
  /\ \A k \in Wave2 : refresh.results[k] # "pending"
  /\ Publish
  /\ UNCHANGED <<dateNow, refreshCount, seen, cacheOthers>>

\* getCachedState(): null, or `{ ...cachedState, cacheAgeMs: Date.now() - lastRefreshMs }`
GetCachedState ==
  IF cachedState = NullState
  THEN [fn |-> "getCachedState", key |-> "none", snap |-> NullState, val |-> 0,
        cacheAgeMs |-> 0]
  ELSE [fn |-> "getCachedState", key |-> "none", snap |-> cachedState, val |-> 0,
        cacheAgeMs |-> dateNow - lastRefreshMs]

\* getCached(key): `(cachedState[key]) ?? null`
GetCached(k) == IF cachedState = NullState THEN 0 ELSE cachedState[k]

\* a route calls getCachedState()
ReadState ==
  /\ seen' = GetCachedState
  /\ UNCHANGED <<dateNow, cachedState, lastRefreshMs, refreshing, refresh,
                 refreshCount, published, lastGood, forced, cacheOthers>>

\* a route calls getCached(key)
ReadKey(k) ==
  /\ seen' = [fn |-> "getCached", key |-> k, snap |-> NullState, val |-> GetCached(k),
              cacheAgeMs |-> 0]
  /\ UNCHANGED <<dateNow, cachedState, lastRefreshMs, refreshing, refresh,
                 refreshCount, published, lastGood, forced, cacheOthers>>

CacheNext ==
  \/ CacheTick
  \/ StartCacheRefresh
  \/ PollAndRefresh
  \/ ForceRefresh
  \/ \E k \in CacheKeys : FetchSettles(k) \/ ReadKey(k)
  \/ Wave1Settled
  \/ Wave2Settled
  \/ ReadState

(***************************************************************************)
(* getSubscriptionIds.  One caller makes its calls one after the other;    *)
(* subscriptions are created on chain in between.                          *)
(***************************************************************************)
\* `const SUB_IDS_CACHE_TTL_MS = 60_000`
SUB_IDS_CACHE_TTL_MS == 60000

IdleIdsCall == [pc |-> "idle", start |-> 0, count |-> 0, reads |-> 0]

SubInit ==
  /\ subNow = SUB_IDS_CACHE_TTL_MS
  /\ subscriptionIds \in {<<>>, <<1>>}
  /\ cachedSubIds = <<>>
  /\ subIdsCacheTime = 0
  /\ idsCall = IdleIdsCall
  /\ idsCalls = 0
  /\ idsInvalidated = FALSE
  /\ idsReturned = <<>>

\* time passes
SubTick ==
  /\ subNow < SUB_IDS_CACHE_TTL_MS + SubTickMs * MaxSubTicks
  /\ subNow' = subNow + SubTickMs
  /\ UNCHANGED <<subscriptionIds, cachedSubIds, subIdsCacheTime, idsCall, idsCalls,
                 idsInvalidated, idsReturned, subOthers>>

\* a consumer creates a subscription: the contract appends its id
CreateSubscription ==
  /\ Len(subscriptionIds) < MaxSubs
  /\ subscriptionIds' = Append(subscriptionIds, Len(subscriptionIds) + 1)
  /\ UNCHANGED <<subNow, cachedSubIds, subIdsCacheTime, idsCall, idsCalls,
                 idsInvalidated, idsReturned, subOthers>>

\* invalidateSubIdCache(): `subIdsCacheTime = 0`
InvalidateSubIdCache ==
  /\ subIdsCacheTime # 0
  /\ subIdsCacheTime' = 0
  /\ idsInvalidated' = TRUE
  /\ UNCHANGED <<subNow, subscriptionIds, cachedSubIds, idsCall, idsCalls,
                 idsReturned, subOthers>>

\* `cachedSubIds.length > 0 && Date.now() - subIdsCacheTime < SUB_IDS_CACHE_TTL_MS`
CacheFresh(ids, cacheTime, nowMs) ==
  Len(ids) > 0 /\ nowMs - cacheTime < SUB_IDS_CACHE_TTL_MS

\* the call has ended: it is remembered with the one before it
IdsReturn(list, reads, start, thrown) ==
  /\ idsReturned' =
       (IF idsReturned = <<>> THEN <<>> ELSE <<idsReturned[Len(idsReturned)]>>)
         \o <<[list |-> list, reads |-> reads, start |-> start, end |-> subNow,
               thrown |-> thrown, invalidated |-> idsInvalidated]>>
  /\ idsInvalidated' = FALSE
  /\ idsCall' = IdleIdsCall

\* getSubscriptionIds(): the cached list when it is fresh, else
\* getSubscriptionCount is awaited
GetSubscriptionIds ==
  /\ idsCall.pc = "idle"
  /\ idsCalls < MaxIdsCalls
  /\ idsCalls' = idsCalls + 1
  /\ IF CacheFresh(cachedSubIds, subIdsCacheTime, subNow)
     THEN IdsReturn(cachedSubIds, 0, subNow, FALSE)
     ELSE /\ idsCall' = [pc |-> "count", start |-> subNow, count |-> 0, reads |-> 0]
          /\ UNCHANGED <<idsReturned, idsInvalidated>>
  /\ UNCHANGED <<subNow, subscriptionIds, cachedSubIds, subIdsCacheTime, subOthers>>

\* the ids the settled reads of the batches have pushed, in index order
RECURSIVE Pushed(_, _, _)
Pushed(ids, n, ok) ==
  IF n = 0 THEN <<>>
  ELSE Pushed(ids, n - 1, ok) \o (IF n \in ok THEN <<ids[n]>> ELSE <<>>)

\* the list is cached and returned:
\* `cachedSubIds = ids; subIdsCacheTime = Date.now(); return ids`
IdsStore(ids, reads) ==
  /\ cachedSubIds' = ids
  /\ subIdsCacheTime' = subNow
  /\ IdsReturn(ids, reads, idsCall.start, FALSE)

\* getSubscriptionCount has returned or thrown; with a count of 0 no batch
\* is read and the empty list is cached and returned
IdsCount ==
  /\ idsCall.pc = "count"
  /\ \E ok \in BOOLEAN :
       IF ~ok
       THEN /\ IdsReturn(<<>>, 1, idsCall.start, TRUE)
            /\ UNCHANGED <<cachedSubIds, subIdsCacheTime>>
       ELSE IF Len(subscriptionIds) = 0
       THEN IdsStore(<<>>, 1)
       ELSE /\ idsCall' = [idsCall EXCEPT !.pc = "batch", !.count = Len(subscriptionIds),
                                          !.reads = 1]
            /\ UNCHANGED <<cachedSubIds, subIdsCacheTime, idsReturned, idsInvalidated>>
  /\ UNCHANGED <<subNow, subscriptionIds, idsCalls, subOthers>>

\* the batch of subscriptionIds(j) reads has settled (Promise.allSettled):
\* the fulfilled ones are pushed
IdsBatch ==
  /\ idsCall.pc = "batch"
  /\ \E ok \in SUBSET (1..idsCall.count) :
       IdsStore(Pushed(subscriptionIds, idsCall.count, ok), idsCall.reads + idsCall.count)
  /\ UNCHANGED <<subNow, subscriptionIds, idsCalls, subOthers>>

SubNext ==
  \/ SubTick
  \/ CreateSubscription
  \/ InvalidateSubIdCache
  \/ GetSubscriptionIds
  \/ IdsCount
  \/ IdsBatch

\* no call of getSubscriptionIds is made: this component in the others
SubIdle ==
  /\ subNow = SUB_IDS_CACHE_TTL_MS
  /\ subscriptionIds = <<>>
  /\ cachedSubIds = <<>>
  /\ subIdsCacheTime = 0
  /\ idsCall = IdleIdsCall
  /\ idsCalls = 0
  /\ idsInvalidated = FALSE
  /\ idsReturned = <<>>

(***************************************************************************)
(* KeepAlive.fulfill and isReady.  A transaction that reverts leaves the   *)
(* contract state as it was.                                               *)
(***************************************************************************)
MARKUP_BPS == 1000
MAX_MARKUP == 1000000
BPS_DENOMINATOR == 10000

ContractInit ==
  /\ \E maxF \in 0..MaxCycles, interval \in 1..MaxCycles :
       subscription = [active |-> TRUE, fulfillmentCount |-> 0, maxFulfillments |-> maxF,
                       lastFulfilled |-> 0, intervalSeconds |-> interval,
                       feePerCycle |-> FeeUnits]
  /\ oracleGasUsdc \in {0, 1}
  /\ balances \in {0, FeeUnits + 1, 2 * FeeUnits + 4}
  /\ usdcHeld = balances
  /\ otherActive = TRUE
  /\ otherBalances = 0
  /\ transfers = 0
  /\ agentUsdc = 0
  /\ protocolFeesAccumulator = 0
  /\ totalFulfillments = 0
  /\ blockTimestamp = 1
  /\ shouldRunAnswer \in {"true", "false", "reverts"}
  /\ fulfillOutcome = "none"
  /\ fulfillCalls = 0

\* the contract is not called: this component in the others
ContractIdle ==
  /\ subscription = [active |-> TRUE, fulfillmentCount |-> 0, maxFulfillments |-> 0,
                     lastFulfilled |-> 0, intervalSeconds |-> 1, feePerCycle |-> FeeUnits]
  /\ oracleGasUsdc = 0
  /\ balances = 0
  /\ usdcHeld = 0
  /\ otherActive = TRUE
  /\ otherBalances = 0
  /\ transfers = 0
  /\ agentUsdc = 0
  /\ protocolFeesAccumulator = 0
  /\ totalFulfillments = 0
  /\ blockTimestamp = 1
  /\ shouldRunAnswer = "true"
  /\ fulfillOutcome = "none"
  /\ fulfillCalls = 0

\* a block is mined later
ContractTick ==
  /\ blockTimestamp < MaxTimestamp
  /\ blockTimestamp' = blockTimestamp + 1
  /\ UNCHANGED <<contractState, shouldRunAnswer, oracleGasUsdc, fulfillOutcome,
                 fulfillCalls, transfers, contractOthers>>

\* the consumer's condition changes
ConsumerCondition ==
  /\ \E a \in {"true", "false", "reverts"} :
       /\ a # shouldRunAnswer
       /\ shouldRunAnswer' = a
  /\ UNCHANGED <<contractState, blockTimestamp, oracleGasUsdc, fulfillOutcome,
                 fulfillCalls, transfers, contractOthers>>

\* the two subscriptions of the consumer
SubscriptionsOfConsumer == {"sub", "other"}

\* the accounts that deposit
Depositors == {"consumer", "depositor"}

\* cancelSubscription(id), called by the consumer: `sub.active = false`,
\* then the whole of balances[msg.sender] is transferred back
CancelSubscription(id) ==
  /\ IF id = "sub" THEN subscription.active ELSE otherActive
  /\ IF id = "sub"
     THEN /\ subscription' = [subscription EXCEPT !.active = FALSE]
          /\ UNCHANGED otherActive
     ELSE /\ otherActive' = FALSE
          /\ UNCHANGED subscription
  /\ LET refund == balances IN
       IF refund > 0
       THEN /\ balances' = 0
            /\ usdcHeld' = usdcHeld - refund
       ELSE UNCHANGED <<balances, usdcHeld>>
  /\ UNCHANGED <<agentUsdc, protocolFeesAccumulator, totalFulfillments, otherBalances,
                 blockTimestamp, shouldRunAnswer, oracleGasUsdc, fulfillOutcome,
                 fulfillCalls, transfers, contractOthers>>

\* depositUSDC(amount): usdc.transferFrom moves the amount to the contract
\* and the sender's balance is credited; a zero amount or a failed
\* transfer reverts
DepositUSDC(who, amount) ==
  /\ transfers < MaxTransfers
  /\ transfers' = transfers + 1
  /\ amount > 0
  /\ usdcHeld' = usdcHeld + amount
  /\ IF who = "consumer"
     THEN balances' = balances + amount /\ UNCHANGED otherBalances
     ELSE otherBalances' = otherBalances + amount /\ UNCHANGED balances
  /\ UNCHANGED <<subscription, otherActive, agentUsdc, protocolFeesAccumulator,
                 totalFulfillments, blockTimestamp, shouldRunAnswer, oracleGasUsdc,
                 fulfillOutcome, fulfillCalls, contractOthers>>

\* withdrawUSDC(amount): reverts on a zero amount and when the sender's
\* balance is smaller; the balance is debited and the amount transferred
WithdrawUSDC(who) ==
  /\ transfers < MaxTransfers
  /\ transfers' = transfers + 1
  /\ \E amount \in {1, balances, otherBalances} :
       /\ amount > 0
       /\ (IF who = "consumer" THEN balances ELSE otherBalances) >= amount
       /\ usdcHeld' = usdcHeld - amount
       /\ IF who = "consumer"
          THEN balances' = balances - amount /\ UNCHANGED otherBalances
          ELSE otherBalances' = otherBalances - amount /\ UNCHANGED balances
  /\ UNCHANGED <<subscription, otherActive, agentUsdc, protocolFeesAccumulator,
                 totalFulfillments, blockTimestamp, shouldRunAnswer, oracleGasUsdc,
                 fulfillOutcome, fulfillCalls, contractOthers>>

\* flushProtocolFees(): the accumulator is zeroed, the amount approved and
\* buybackModule.receiveUSDC(amount) called; the module, another contract,
\* pulls up to its allowance
FlushProtocolFees ==
  /\ protocolFeesAccumulator > 0
  /\ protocolFeesAccumulator' = 0
  /\ \E pulled \in {0, protocolFeesAccumulator} :
       usdcHeld' = usdcHeld - pulled
  /\ UNCHANGED <<subscription, otherActive, balances, otherBalances, agentUsdc,
                 totalFulfillments, blockTimestamp, shouldRunAnswer, oracleGasUsdc,
                 fulfillOutcome, fulfillCalls, transfers, contractOthers>>

\* withdrawProtocolFees(): the accumulator is zeroed and its amount
\* transferred to the owner
WithdrawProtocolFees ==
  /\ protocolFeesAccumulator > 0
  /\ protocolFeesAccumulator' = 0
  /\ usdcHeld' = usdcHeld - protocolFeesAccumulator
  /\ UNCHANGED <<subscription, otherActive, balances, otherBalances, agentUsdc,
                 totalFulfillments, blockTimestamp, shouldRunAnswer, oracleGasUsdc,
                 fulfillOutcome, fulfillCalls, transfers, contractOthers>>

\* a condition check that lets every cycle run
CheckCondition_Always(answer) == TRUE

\* _checkCondition: `try shouldRun(id) returns (bool ready) { return ready }
\* catch { return true }`
CheckCondition(answer) == IF answer = "reverts" THEN TRUE ELSE answer = "true"

\* `markup = (fee * MARKUP_BPS) / BPS_DENOMINATOR; if (markup > MAX_MARKUP) markup = MAX_MARKUP`
Markup(fee) ==
  LET markup == (fee * MARKUP_BPS) \div BPS_DENOMINATOR
  IN IF markup > MAX_MARKUP THEN MAX_MARKUP ELSE markup

\* a payout that hands the markup to the caller as well
AgentPayout_WithMarkup(fee, gasReimbursement) == fee + Markup(fee) + gasReimbursement

\* `uint256 agentPayout = fee + gasReimbursement`
AgentPayout(fee, gasReimbursement) == fee + gasReimbursement

\* the custom error fulfill reverts with, "none" when it goes through; the
\* checks come in the order of the function body
FulfillRevert(sub, balance, timestamp, answer, gasReimbursement) ==
  LET totalCost == sub.feePerCycle + Markup(sub.feePerCycle) + gasReimbursement IN
  IF ~sub.active THEN "SubscriptionInactive"
  ELSE IF sub.lastFulfilled # 0 /\ timestamp < sub.lastFulfilled + sub.intervalSeconds
  THEN "IntervalNotReached"
  ELSE IF sub.maxFulfillments > 0 /\ sub.fulfillmentCount >= sub.maxFulfillments
  THEN "MaxFulfillmentsReached"
  ELSE IF ~CheckCondition(answer) THEN "ConditionNotMet"
  ELSE IF balance < totalCost THEN "InsufficientBalance"
  ELSE "none"

\* fulfill(subscriptionId) is executed in a block
ContractFulfill ==
  /\ fulfillCalls < MaxFulfillCalls
  /\ fulfillCalls' = fulfillCalls + 1
  /\ LET sub == subscription
         fee == sub.feePerCycle
         markup == Markup(fee)
         gasReimbursement == oracleGasUsdc
         totalCost == fee + markup + gasReimbursement
         err == FulfillRevert(sub, balances, blockTimestamp, shouldRunAnswer,
                              gasReimbursement)
         count == sub.fulfillmentCount + 1
     IN IF err # "none"
        THEN /\ fulfillOutcome' = err
             /\ UNCHANGED contractState
        ELSE /\ fulfillOutcome' = "success"
             /\ balances' = balances - totalCost
             /\ subscription' =
                  [sub EXCEPT !.fulfillmentCount = count,
                              !.lastFulfilled = blockTimestamp,
                              !.active = ~(sub.maxFulfillments > 0
                                           /\ count >= sub.maxFulfillments)]
             /\ totalFulfillments' = totalFulfillments + 1
             /\ agentUsdc' = agentUsdc + AgentPayout(fee, gasReimbursement)
             /\ usdcHeld' = usdcHeld - AgentPayout(fee, gasReimbursement)
             /\ protocolFeesAccumulator' = protocolFeesAccumulator + markup
             /\ UNCHANGED <<otherActive, otherBalances>>
  /\ UNCHANGED <<blockTimestamp, shouldRunAnswer, oracleGasUsdc, transfers,
                 contractOthers>>

\* isReady(id)
IsReady ==
  /\ subscription.active
  /\ ~(subscription.maxFulfillments > 0
       /\ subscription.fulfillmentCount >= subscription.maxFulfillments)
  /\ ~(subscription.lastFulfilled # 0
       /\ blockTimestamp < subscription.lastFulfilled + subscription.intervalSeconds)
  /\ ~(balances < subscription.feePerCycle + Markup(subscription.feePerCycle)
                    + oracleGasUsdc)
  /\ CheckCondition(shouldRunAnswer)

ContractNext ==
  \/ ContractTick
  \/ ConsumerCondition
  \/ \E id \in SubscriptionsOfConsumer : CancelSubscription(id)
  \/ ContractFulfill

\* the accounts of the contract: every call that moves USDC, with a consumer
\* whose condition lets every cycle run
LedgerInit ==
  /\ ContractInit
  /\ shouldRunAnswer = "true"
  /\ subscription.intervalSeconds = 1

LedgerNext ==
  \/ ContractTick
  \/ \E id \in SubscriptionsOfConsumer : CancelSubscription(id)
  \/ \E who \in Depositors : DepositUSDC(who, FeeUnits + 2)
  \/ \E who \in Depositors : WithdrawUSDC(who)
  \/ ContractFulfill
  \/ WithdrawProtocolFees
  \/ FlushProtocolFees

(***************************************************************************)
(* The polling loops.  What a poll finds on the chain is an input here;    *)
(* the scans themselves are the agent and cursor components.               *)
(***************************************************************************)
Loops == {"watcher", "eventPoller", "pollAndFulfill"}
IntervalLoops == {"watcher", "eventPoller"}
BodyIds == Loops \X (1..LoopSlots)

IdleBody == [pc |-> "idle", left |-> 0]

\* the first await of poll
FirstAwait(l) == IF l = "pollAndFulfill" THEN "ready" ELSE "blockNumber"

\* the loop has been started: `setInterval(poll, ...); poll()` in the
\* watcher and the event poller, `poll()` alone in pollAndFulfill
LoopInit ==
  \E s \in Loops :
    /\ stopped = [l \in Loops |-> FALSE]
    /\ timer = [l \in Loops |-> l = s /\ l \in IntervalLoops]
    /\ body = [b \in BodyIds |->
                 IF b[1] = s /\ b[2] = 1
                 THEN [pc |-> FirstAwait(s), left |-> 0] ELSE IdleBody]
    /\ polls = [l \in Loops |-> IF l = s THEN 1 ELSE 0]
    /\ lateEffects = {}

\* no loop has been started: this component in the others
LoopIdle ==
  /\ stopped = [l \in Loops |-> FALSE]
  /\ timer = [l \in Loops |-> FALSE]
  /\ body = [b \in BodyIds |-> IdleBody]
  /\ polls = [l \in Loops |-> 0]
  /\ lateEffects = {}

\* a timer that keeps firing in every loop, as setInterval does
TimerAfterFire_Interval(l) == TRUE

\* after it has fired a setInterval timer stays set, a setTimeout is spent
TimerAfterFire(l) == l \in IntervalLoops

\* the timer fires and poll runs: `if (stopped) return`, then the first await
TimerFires(l, k) ==
  /\ timer[l]
  /\ polls[l] < MaxPolls
  /\ body[<<l, k>>].pc = "idle"
  /\ \A j \in 1..(k - 1) : body[<<l, j>>].pc # "idle"
  /\ timer' = [timer EXCEPT ![l] = TimerAfterFire(l)]
  /\ IF stopped[l]
     THEN UNCHANGED <<body, polls>>
     ELSE /\ body' = [body EXCEPT ![<<l, k>>] = [pc |-> FirstAwait(l), left |-> 0]]
          /\ polls' = [polls EXCEPT ![l] = @ + 1]
  /\ UNCHANGED <<stopped, lateEffects, loopOthers>>

\* the stop handle: `stopped = true; clearInterval(intervalId)` /
\* `clearTimeout(timeoutId)`
Stop(l) ==
  /\ ~stopped[l]
  /\ stopped' = [stopped EXCEPT ![l] = TRUE]
  /\ timer' = [timer EXCEPT ![l] = FALSE]
  /\ UNCHANGED <<body, polls, lateEffects, loopOthers>>

\* the effects a poll makes, kept when the loop was stopped before
Effects(l, kinds) ==
  lateEffects' = IF stopped[l] THEN lateEffects \cup {<<l, kind>> : kind \in kinds}
                 ELSE lateEffects

\* the ticker after the recovery path has set it again: the watcher calls
\* `clearInterval(intervalId); intervalId = setInterval(poll, currentPollMs)`,
\* the event poller restartInterval(), which returns when stopped
RecoveryTimer(l, isStopped) == IF l = "eventPoller" THEN ~isStopped ELSE TRUE

\* the catch block of poll: the error is counted, and from the third the
\* interval is backed off and the ticker set again unless stopped
LoopCatch(l) ==
  IF l = "watcher"
  THEN /\ consecutiveErrors < MaxErrors
       /\ consecutiveErrors' = consecutiveErrors + 1
       /\ currentPollMs' = IF stopped[l] THEN currentPollMs
                           ELSE WatcherBackoff(consecutiveErrors + 1, currentPollMs)
       /\ UNCHANGED <<errorCount, currentInterval, timer>>
  ELSE /\ errorCount < MaxErrors
       /\ errorCount' = errorCount + 1
       /\ currentInterval' = PollerBackoff(errorCount + 1, currentInterval)
       /\ UNCHANGED <<consecutiveErrors, currentPollMs, timer>>

\* a poll returns early: the watcher clears its counter
LoopReturnsEarly(l) ==
  /\ consecutiveErrors' = IF l = "watcher" THEN 0 ELSE consecutiveErrors
  /\ UNCHANGED <<currentPollMs, errorCount, currentInterval, timer>>

\* the end of a scan: when errors were counted the counter is cleared, the
\* interval restored and the ticker set again
LoopRecovers(l) ==
  IF l = "watcher"
  THEN /\ consecutiveErrors' = 0
       /\ IF consecutiveErrors > 0 /\ currentPollMs > 2000
          THEN /\ currentPollMs' = 2000
               /\ timer' = [timer EXCEPT ![l] = RecoveryTimer(l, stopped[l])]
          ELSE UNCHANGED <<currentPollMs, timer>>
       /\ UNCHANGED <<errorCount, currentInterval>>
  ELSE /\ errorCount' = 0
       /\ IF errorCount > 0
          THEN /\ currentInterval' = pollIntervalMs
               /\ timer' = [timer EXCEPT ![l] = RecoveryTimer(l, stopped[l])]
          ELSE UNCHANGED <<currentInterval, timer>>
       /\ UNCHANGED <<consecutiveErrors, currentPollMs>>

\* watcher / event poller: getBlockNumber has returned or thrown.  The
\* watcher without cursor saves the current block and returns; with no new
\* block the poll returns; else getLogs is awaited
PollBlockNumber(l, k) ==
  /\ l \in IntervalLoops
  /\ body[<<l, k>>].pc = "blockNumber"
  /\ \E res \in {"throws", "noCursor", "noNewBlock", "newBlocks"} :
       CASE res = "throws" ->
              /\ LoopCatch(l)
              /\ body' = [body EXCEPT ![<<l, k>>] = IdleBody]
              /\ UNCHANGED lateEffects
         [] res = "noCursor" /\ l = "watcher" ->
              /\ Effects(l, {"cursor"})
              /\ LoopReturnsEarly(l)
              /\ body' = [body EXCEPT ![<<l, k>>] = IdleBody]
         [] res \in {"newBlocks", "noCursor"} ->
              /\ body' = [body EXCEPT ![<<l, k>>].pc = "logs"]
              /\ UNCHANGED <<lateEffects, consecutiveErrors, currentPollMs,
                             errorCount, currentInterval, timer>>
         [] OTHER ->
              /\ LoopReturnsEarly(l)
              /\ body' = [body EXCEPT ![<<l, k>>] = IdleBody]
              /\ UNCHANGED lateEffects
  /\ UNCHANGED <<stopped, polls, tickerOthers>>

\* watcher / event poller: getLogs has returned or thrown; every log goes
\* to the callback, then the watcher saves its cursor
PollLogs(l, k) ==
  /\ l \in IntervalLoops
  /\ body[<<l, k>>].pc = "logs"
  /\ \E res \in {"throws", "noLogs", "logs"} :
       /\ Effects(l, (IF res = "logs" THEN {"callback"} ELSE {})
                       \cup (IF res # "throws" /\ l = "watcher" THEN {"cursor"} ELSE {}))
       /\ IF res = "throws" THEN LoopCatch(l) ELSE LoopRecovers(l)
  /\ body' = [body EXCEPT ![<<l, k>>] = IdleBody]
  /\ UNCHANGED <<stopped, polls, tickerOthers>>

\* pollAndFulfill: the next round of `for (const subId of readySubs)`, with
\* n subscriptions left: `if (stopped) break`, then fulfill is awaited;
\* after the loop `if (!stopped) timeoutId = setTimeout(poll, intervalMs)`
NextSub(k, n) ==
  IF n > 0 /\ ~stopped["pollAndFulfill"]
  THEN /\ body' = [body EXCEPT ![<<"pollAndFulfill", k>>] = [pc |-> "preflight", left |-> n]]
       /\ UNCHANGED timer
  ELSE /\ body' = [body EXCEPT ![<<"pollAndFulfill", k>>] = IdleBody]
       /\ timer' = [timer EXCEPT !["pollAndFulfill"] = ~stopped["pollAndFulfill"]]

\* pollAndFulfill: getReadySubscriptions has returned or thrown
PafReady(k) ==
  /\ body[<<"pollAndFulfill", k>>].pc = "ready"
  /\ \E n \in 0..MaxReady : NextSub(k, n)
  /\ UNCHANGED <<stopped, polls, lateEffects, loopOthers>>

\* pollAndFulfill: the reads of fulfill(subId) have returned: fulfill
\* returns null or throws, or it submits the transaction
PafPreflight(k) ==
  LET b == <<"pollAndFulfill", k>> IN
  /\ body[b].pc = "preflight"
  /\ \E res \in {"null", "throws", "submit"} :
       IF res = "submit"
       THEN /\ Effects("pollAndFulfill", {"tx"})
            /\ body' = [body EXCEPT ![b].pc = "write"]
            /\ UNCHANGED timer
       ELSE /\ NextSub(k, body[b].left - 1)
            /\ UNCHANGED lateEffects
  /\ UNCHANGED <<stopped, polls, loopOthers>>

\* pollAndFulfill: writeContract has returned the hash (onFulfilled is
\* called) or thrown
PafWrite(k) ==
  LET b == <<"pollAndFulfill", k>> IN
  /\ body[b].pc = "write"
  /\ \E ok \in BOOLEAN :
       Effects("pollAndFulfill", IF ok THEN {"callback"} ELSE {})
  /\ NextSub(k, body[b].left - 1)
  /\ UNCHANGED <<stopped, polls, loopOthers>>

LoopNext ==
  \/ \E l \in Loops :
       \/ Stop(l)
       \/ \E k \in 1..LoopSlots :
            \/ TimerFires(l, k)
            \/ PollBlockNumber(l, k)
            \/ PollLogs(l, k)
  \/ \E k \in 1..LoopSlots :
       \/ PafReady(k)
       \/ PafPreflight(k)
       \/ PafWrite(k)

(***************************************************************************)
(* The block ranges the scanners ask getLogs for, from the cursor and the  *)
(* current block.                                                          *)
(***************************************************************************)
LogScanners == {"requestWatcher", "configWatcher", "fallbackPoll", "sweeper", "eventPoller"}

BlockSamples == {k * RangeStep + d : k \in 0..MaxSteps, d \in 0..1}

NoCalls == [scanner |-> "none", last |-> 0, current |-> 0, ranges |-> <<>>]

RangeInit == logCalls = NoCalls

\* `for (let start = fromBlock; start <= latestBlock; start += CHUNK)` with
\* `end = start + CHUNK - 1n > latestBlock ? latestBlock : start + CHUNK - 1n`
RECURSIVE Chunks(_, _)
Chunks(start, latest) ==
  IF start > latest THEN <<>>
  ELSE LET end == IF start + CHUNK - 1 > latest THEN latest ELSE start + CHUNK - 1
       IN <<<<start, end>>>> \o Chunks(start + CHUNK, latest)

\* one getLogs from fromBlock to the current block
Whole(fromBlock, current) == <<<<fromBlock, current>>>>

\* watchRequestCreated: no scan without cursor or without new block
RequestWatcherRanges(last, current) ==
  IF last = 0 \/ current <= last THEN <<>> ELSE Chunks(last + 1, current)

\* watchConfigEvents: the three getLogs of Promise.all have the same range
ConfigWatcherRanges(last, current) ==
  IF last = 0 \/ current <= last THEN <<>> ELSE Whole(last + 1, current)

\* pollPendingRequests
PendingRanges(saved, latest) ==
  IF ScanFromBlock(saved, latest) > latest THEN <<>>
  ELSE Chunks(ScanFromBlock(saved, latest), latest)

\* createEventPoller: 100 blocks back on the first scan
EventPollerRanges(last, current) ==
  IF current <= last THEN <<>>
  ELSE Whole(IF last = 0 THEN (IF current > 100 THEN current - 100 ELSE 0)
             ELSE last + 1, current)

RangesOf(s, last, current) ==
  CASE s = "requestWatcher" -> RequestWatcherRanges(last, current)
    [] s = "configWatcher" -> ConfigWatcherRanges(last, current)
    [] s = "eventPoller" -> EventPollerRanges(last, current)
    [] OTHER -> PendingRanges(last, current)

\* scanner s polls with cursor last when the chain is at block current
Scan(s) ==
  /\ \E last \in BlockSamples : \E current \in BlockSamples :
       /\ last <= current
       /\ logCalls' = [scanner |-> s, last |-> last, current |-> current,
                       ranges |-> RangesOf(s, last, current)]
  /\ UNCHANGED rangeOthers

RangeNext == \E s \in LogScanners : Scan(s)

(***************************************************************************)
(* watchConfigEvents: the poll of the config watcher, one at a time.       *)
(***************************************************************************)
IdleConfigPoll == [pc |-> "idle", from |-> 0, to |-> 0]

ConfigInit ==
  /\ cfgLastBlock = 0
  /\ cfgErrors = 0
  /\ cfgPoll = [IdleConfigPoll EXCEPT !.pc = "blockNumber"]
  /\ cfgSince = 0
  /\ cfgEvents = {}
  /\ cfgDelivered = {}

\* the owner changes the hub configuration: a block with a config event
EmitConfigEvent ==
  /\ head < MaxHead
  /\ head' = head + 1
  /\ cfgEvents' = cfgEvents \cup {head + 1}
  /\ UNCHANGED <<cfgLastBlock, cfgErrors, cfgPoll, cfgSince, cfgDelivered, configChain>>

\* setInterval fires and poll awaits getBlockNumber
ConfigPollStarts ==
  /\ cfgPoll.pc = "idle"
  /\ cfgPoll' = [cfgPoll EXCEPT !.pc = "blockNumber"]
  /\ UNCHANGED <<cfgLastBlock, cfgErrors, cfgSince, cfgEvents, cfgDelivered, configOthers>>

\* the catch block: `consecutiveErrors++`, and lastBlock = 0n from ten on
ConfigCatch ==
  /\ cfgErrors < MaxErrors
  /\ cfgErrors' = cfgErrors + 1
  /\ cfgPoll' = IdleConfigPoll

\* getBlockNumber has returned or thrown; `lastBlock = currentBlock` comes
\* before the getLogs calls
ConfigPollBlockNumber ==
  /\ cfgPoll.pc = "blockNumber"
  /\ \E ok \in BOOLEAN :
       IF ~ok
       THEN /\ ConfigCatch
            /\ cfgLastBlock' = IF cfgErrors + 1 >= 10 THEN 0 ELSE cfgLastBlock
            /\ UNCHANGED cfgSince
       ELSE IF cfgLastBlock = 0
       THEN /\ cfgLastBlock' = head
            /\ cfgSince' = IF cfgSince = 0 THEN head ELSE cfgSince
            /\ cfgPoll' = IdleConfigPoll
            /\ UNCHANGED cfgErrors
       ELSE IF head <= cfgLastBlock
       THEN /\ cfgPoll' = IdleConfigPoll
            /\ UNCHANGED <<cfgLastBlock, cfgErrors, cfgSince>>
       ELSE /\ cfgPoll' = [pc |-> "logs", from |-> cfgLastBlock + 1, to |-> head]
            /\ cfgLastBlock' = head
            /\ UNCHANGED <<cfgErrors, cfgSince>>
  /\ UNCHANGED <<cfgEvents, cfgDelivered, configOthers>>

\* the three getLogs of Promise.all have returned, or one has thrown
ConfigPollLogs ==
  /\ cfgPoll.pc = "logs"
  /\ \E ok \in BOOLEAN :
       IF ok
       THEN /\ cfgDelivered' = cfgDelivered \cup (cfgEvents \cap (cfgPoll.from .. cfgPoll.to))
            /\ cfgErrors' = 0
            /\ cfgPoll' = IdleConfigPoll
            /\ UNCHANGED cfgLastBlock
       ELSE /\ ConfigCatch
            /\ cfgLastBlock' = IF cfgErrors + 1 >= 10 THEN 0 ELSE cfgLastBlock
            /\ UNCHANGED cfgDelivered
  /\ UNCHANGED <<cfgSince, cfgEvents, configOthers>>

ConfigNext ==
  \/ EmitConfigEvent
  \/ ConfigPollStarts
  \/ ConfigPollBlockNumber
  \/ ConfigPollLogs

\* ---- more components go above this line ----
InitAll ==
  /\ MutexInit /\ CallerInit /\ SenderInit /\ AgentInit /\ KaInit /\ RunInit
  /\ BackoffInit /\ ProfitDone /\ PreflightInit /\ CacheInit
  /\ ConfigInit
  /\ RangeInit
  /\ LoopIdle
  /\ ContractIdle
  /\ SubIdle

MutexNext ==
  \E c \in Callers :
    \/ CallWithTxMutex(c)
    \/ InvokeClosure(c)
    \/ SettleClosure(c)

SpecMutex == InitAll /\ [][MutexNext]_vars

Settled(c) == closState[c] \in {"resolved", "rejected"}

\* position of caller c in the submission order (0 when it has not called)
SubmitPos(c) ==
  IF \E i \in 1..Len(submitOrder) : submitOrder[i] = c
  THEN CHOOSE i \in 1..Len(submitOrder) : submitOrder[i] = c
  ELSE 0

\* C2: closures passed to withTxMutex run one at a time and in submission
\* order: while a closure is running, or after it has run, every closure
\* submitted before it has settled, and two closures never run together.
C2_MutexFifo ==
  /\ Cardinality({c \in Callers : closState[c] = "running"}) <= 1
  /\ \A c, d \in Callers :
       (closState[c] \in {"running", "resolved", "rejected"}
          /\ SubmitPos(d) > 0 /\ SubmitPos(d) < SubmitPos(c))
       => Settled(d)

\* all callers have submitted, one earlier closure was rejected, a later one
\* is running and the rest still wait
C2_Witness ==
  /\ Len(submitOrder) = NCallers
  /\ \E c, d, e \in Callers :
       /\ closState[c] = "rejected"
       /\ closState[d] = "running"
       /\ closState[e] = "queued"
       /\ SubmitPos(c) < SubmitPos(d)
       /\ SubmitPos(d) < SubmitPos(e)

\* every closure that can be invoked is invoked, every running closure
\* settles
SpecMutexLive ==
  /\ InitAll
  /\ [][MutexNext]_vars
  /\ \A c \in Callers : WF_vars(InvokeClosure(c)) /\ WF_vars(SettleClosure(c))

\* C34: a closure is rejected only by its own run; a waiting closure whose
\* predecessors have all settled, resolved or rejected, can be invoked; and
\* every submitted closure is invoked in the end
C34_RejectionReleases ==
  /\ [][\A c \in Callers :
          (closState'[c] = "rejected" /\ closState[c] # "rejected")
            => closState[c] = "running"]_vars
  /\ [](\A d \in Callers :
          (closState[d] = "queued"
             /\ \A c \in Callers : (SubmitPos(c) > 0 /\ SubmitPos(c) < SubmitPos(d))
                                      => Settled(c))
          => GateOpen(closPrev[d]))
  /\ \A d \in Callers : (closState[d] = "queued") ~> (closState[d] # "queued")

\* C34, the case: a closure was rejected and a closure submitted after it
\* has run and resolved
C34_Witness ==
  \E c, d \in Callers :
    /\ closState[c] = "rejected"
    /\ closState[d] = "resolved"
    /\ SubmitPos(c) < SubmitPos(d)

SpecAgent == InitAll /\ [][AgentNext]_vars

\* a task of the agent that is processing request r: a router delegation
\* (handler, fulfillRequestOnChain), a router cancel or a sweeper cancel
Processing(r) ==
  {t \in TaskIds : t[2] = r /\ task[t].pc \notin {"idle", "getRequest"}}

\* the fulfillRequest transactions submitted for request r, by index
FulfillTxs(r) ==
  {i \in 1..Len(txs) : txs[i].kind = "fulfill" /\ txs[i].req = r}

\* C3: for every request id at most one fulfillRequest transaction is
\* submitted, unless an earlier fulfillRequest transaction for the same id
\* has reverted
C3_OneFulfillTx ==
  \A r \in Requests : \A i, j \in FulfillTxs(r) :
    i < j => \E k \in FulfillTxs(r) : k < j /\ txs[k].state = "reverted"

\* C4: at any moment at most one task of the agent is processing a given
\* request id, and the id is in the in-flight set exactly while a task is
\* processing it (a call that finds the id in the set starts no task)
C4_SingleFlight ==
  \A r \in Requests :
    /\ Cardinality(Processing(r)) <= 1
    /\ (r \in inProgress) <=> (Processing(r) # {})

\* C4, the case: a routeRequest call or sweeper visit found the id in the
\* in-flight set and returned while the task that holds it is still working
C4_Witness ==
  \E r \in Requests : r \in dropped /\ Cardinality(Processing(r)) = 1

\* C6: every transaction that was reported as a success (hash returned,
\* request_fulfilled or request_cancelled broadcast) has a receipt, and the
\* receipt is not a revert
C6_RevertNotSuccess ==
  \A i \in reported : i \in 1..Len(txs) /\ txs[i].state = "success"

\* a cancelRequest was attempted for r: the router or the sweeper announced
\* the timeout and called cancelRequestOnChain
CancelAttempted(r) ==
  \/ <<"request_timeout", r>> \in bcast
  \/ <<"request_timeout_unknown_endpoint", r>> \in bcast

\* C7: between two sweeper passes (a pass that starts with the cursor at or
\* past a block does not scan it, so the state after the pass is this state)
\* every request behind the sweeper cursor that is PENDING, older than
\* TIMEOUT_MS and not in the in-flight set has had a cancel attempted
C7_SweeperCancelsStale ==
  \A r \in Requests :
    ( /\ scanPc["sweeper"] = "idle"
      /\ cursorFile["hub-sweeper"] >= reqBlock[r]
      /\ reqStatus[r] = "PENDING"
      /\ IsStale(now, reqCreatedAt[r])
      /\ r \notin inProgress )
    => CancelAttempted(r)

\* a later scan that hands its requests to the router can still reach the
\* block of r: the watcher scans lastBlock+1.. (and scans nothing when
\* lastBlock is 0), the fallback poll scans from its cursor
CanReobserve(r) ==
  \/ lastBlock # 0 /\ lastBlock < reqBlock[r]
  \/ ScanFromBlock(cursorFile["hub-fallback"], head) <= reqBlock[r]

\* C8: when the agent is quiet (no scan in progress, no task for r) a
\* request whose fulfillment was skipped and which is still PENDING lies
\* ahead of the watcher or of the fallback poll, so that a later scan hands
\* it to the router again
C8_SkippedReobserved ==
  \A r \in skipped :
    ( /\ reqStatus[r] = "PENDING"
      /\ \A s \in Scanners : scanPc[s] = "idle"
      /\ \A t \in TaskIds : t[2] = r => task[t].pc = "idle" )
    => CanReobserve(r)

SpecKeepAlive == InitAll /\ [][KeepAliveNext]_vars

\* the calls of fulfill for subscription s that have passed the guard and
\* the pre-flight checks and are submitting: chained on the mutex or inside
\* writeContract
Submitting(s) ==
  {c \in KaCalls : kaCall[c].sub = s /\ kaCall[c].pc \in {"queued", "write"}}

\* C5: for every subscription id at most one call of fulfill is submitting
\* a transaction at a time; a call made while another has not settled
\* returns without submitting
C5_KaSingleFlight ==
  \A s \in Subs : Cardinality(Submitting(s)) <= 1

SpecCursor == InitAll /\ [][CursorNext]_vars

\* C9: no step makes the persisted cursor of a label smaller
C9_CursorMonotone ==
  [][\A l \in Labels : cursorFile'[l] >= cursorFile[l]]_vars

\* C10: a watcher scan that begins after the watcher has persisted cursor b
\* dispatches no event whose block is at or below b
C10_NoRedispatch ==
  \A d \in dispatchLog : d[1] > d[2]

\* the on-chain writes (fulfillRequest or cancelRequest) sent for request r
WritesFor(r) == {i \in 1..Len(txs) : txs[i].req = r}

\* C12: however often the log of request r is dispatched, by the watcher
\* and by the fallback poll, at most one on-chain write is sent for r and
\* at most one terminal broadcast (request_fulfilled, request_cancelled)
\* is emitted for it
C12_EffectOnce ==
  \A r \in Requests :
    /\ Cardinality(WritesFor(r)) <= 1
    /\ Cardinality(WritesFor(r) \cap reported) <= 1

\* the runs of the body of loop s that are in progress
RunsInProgress(s) == {k \in 1..NRuns : run[<<s, k>>].pc # "idle"}

\* C11: for every periodic loop at most one run of its body is in progress:
\* the next run starts only after the previous one has completed
C11_NoOverlap ==
  \A s \in Scanners : Cardinality(RunsInProgress(s)) <= 1

SpecBackoff == InitAll /\ [][BackoffNext]_vars

\* the poll interval of poller p
IntervalOf(p) == IF p = "watcher" THEN currentPollMs ELSE currentInterval

\* C13: a row of poll errors that begins at the 2 s interval has brought the
\* interval to 4 s after the third error and to 8 s after the fifth, and
\* the interval never exceeds 30 s
C13_BackoffSteps ==
  \A p \in Pollers :
    /\ IntervalOf(p) <= 30000
    /\ streak[p].base = 2000 =>
         /\ streak[p].n = 3 => IntervalOf(p) = 4000
         /\ streak[p].n = 5 => IntervalOf(p) = 8000

\* C13 as amended: a row of poll errors that begins at the 2 s interval with
\* no error counted leaves the interval at 2 s for two errors, brings it to
\* 4 s with the third and doubles it with every further error (8 s after
\* four, 16 s after five) up to the ceiling of 30 s, which is never exceeded
C13_BackoffDoubles ==
  \A p \in Pollers :
    /\ IntervalOf(p) <= 30000
    /\ (streak[p].base = 2000 /\ streak[p].from = 0) =>
         /\ streak[p].n \in 1..2 => IntervalOf(p) = 2000
         /\ streak[p].n = 3 => IntervalOf(p) = 4000
         /\ streak[p].n = 4 => IntervalOf(p) = 8000
         /\ streak[p].n = 5 => IntervalOf(p) = 16000
         /\ streak[p].n >= 6 => IntervalOf(p) = 30000

\* C13, the case: five errors in a row from the 2 s interval, in both pollers
C13_Witness ==
  \A p \in Pollers :
    streak[p] = [n |-> 5, base |-> 2000, from |-> 0] /\ IntervalOf(p) = 16000

RouterInitAll ==
  /\ MutexInit /\ CallerInit /\ SenderInit /\ KaInit /\ RunInit /\ BackoffInit
  /\ ProfitDone /\ PreflightInit /\ CacheInit
  /\ ConfigInit
  /\ RangeInit
  /\ LoopIdle
  /\ ContractIdle
  /\ SubIdle /\ RouterInit

SpecRouter == RouterInitAll /\ [][RouterNext]_vars

\* the age of request r in milliseconds
AgeMs(r) == now - reqCreatedAt[r] * 1000

\* a task of the fulfill path (handler, fulfillRequestOnChain) works on r
OnFulfillPath(r) ==
  \E t \in TaskIds :
    /\ t[2] = r
    /\ task[t].pc \in {"handler", "fQueued", "fStatus", "fEstimate", "fPrice",
                        "fWrite", "fReceipt"}

\* a task of the cancel path (cancelRequestOnChain) works on r
OnCancelPath(r) ==
  \E t \in TaskIds : t[2] = r /\ task[t].pc \in {"cQueued", "cWrite"}

\* C14: a request older than 5 minutes is cancelled by routeRequest and is
\* never handed to a handler; a request of at most 5 minutes is classified
\* (handler or unknown endpoint) without a staleness cancel
C14_StaleBoundary ==
  \A r \in Requests :
    /\ AgeMs(r) > 300000 =>
         /\ ~OnFulfillPath(r)
         /\ <<"request_routing", r>> \notin bcast
         /\ r \in inProgress => OnCancelPath(r) /\ <<"request_timeout", r>> \in bcast
    /\ AgeMs(r) <= 300000 =>
         /\ <<"request_timeout", r>> \notin bcast
         /\ r \in inProgress =>
              \/ <<"request_routing", r>> \in bcast
              \/ <<"request_timeout_unknown_endpoint", r>> \in bcast

\* C14, the cases: a request of exactly 5 minutes is on the fulfill path
\* while one of 5 minutes and 1 ms would be cancelled
C14_Witness ==
  \E r \in Requests : AgeMs(r) = 300000 /\ OnFulfillPath(r)

\* C15: a non-stale request whose endpoint has no handler gets
\* request_timeout with reason unknown_endpoint and a cancelRequest at once,
\* and neither a handler nor request_routing
C15_UnknownEndpoint ==
  \A r \in Requests :
    (AgeMs(r) <= 300000 /\ reqEndpoint[r] = "unknown") =>
      /\ ~OnFulfillPath(r)
      /\ <<"request_routing", r>> \notin bcast
      /\ r \in inProgress =>
           /\ OnCancelPath(r)
           /\ <<"request_timeout_unknown_endpoint", r>> \in bcast

\* C15, the case: the cancel for such a request is being submitted
C15_Witness ==
  \E r \in Requests :
    /\ AgeMs(r) <= 300000 /\ reqEndpoint[r] = "unknown"
    /\ \E t \in TaskIds : t[2] = r /\ task[t].pc = "cWrite"

ProfitInitAll ==
  /\ MutexInit /\ CallerInit /\ SenderInit /\ AgentInit /\ KaInit /\ RunInit
  /\ BackoffInit /\ ProfitInit /\ PreflightInit /\ CacheInit
  /\ ConfigInit
  /\ RangeInit
  /\ LoopIdle
  /\ ContractIdle
  /\ SubIdle

SpecProfit == ProfitInitAll /\ [][ProfitNext]_vars

\* profit = reimbursement minus estimated cost (no cost without a price)
Profit == reimbursementUsdc - (IF ethPrice > 0 THEN estimatedCostUsdc ELSE 0)

SpecPreflight == InitAll /\ [][PreflightNext]_vars

\* C17: an attempt whose pre-flight gas estimation has failed has returned
\* null and has not called writeContract, on each of the three paths
C17_NoTxAfterFailedEstimate ==
  \A a \in Attempts :
    attempt[a].est = "failed" => (attempt[a].pc = "null" /\ a \notin submitted)

\* C17, the case: the estimation has failed on each of the three paths
C17_Witness ==
  \A path \in Paths : \E a \in Attempts : a[1] = path /\ attempt[a].est = "failed"

\* C27: every fulfillRequest transaction was submitted by a closure that
\* had read the request's status and found it PENDING
C27_PendingBeforeSubmit ==
  \A a \in submitted :
    a[1] \in {"hubService", "sdkHub"} => attempt[a].status = "PENDING"

\* C28: a fulfill whose ETH price lookup has failed is not skipped: it has
\* not returned null without submitting
C28_FailOpen ==
  \A a \in Attempts :
    attempt[a].lookup = "failed" => ~(attempt[a].pc = "null" /\ a \notin submitted)

SpecCache == InitAll /\ [][CacheNext]_vars

\* every value of the snapshot is null or from the published refresh g
WholeSnapshot(snap) ==
  \E g \in published : \A k \in CacheKeys : snap[k] \in {0, g}

\* C18: the snapshot a reader is given, and the one any reader would be
\* given, is the whole snapshot of one published refresh, also while a
\* refresh is waiting on its fetches; getCached returns a published value
C18_WholeSnapshot ==
  /\ cachedState # NullState => WholeSnapshot(cachedState)
  /\ (seen.fn = "getCachedState" /\ seen.snap # NullState) => WholeSnapshot(seen.snap)
  /\ seen.fn = "getCached" => seen.val \in {0} \cup published

\* C18, the case: a reader was given the first snapshot while the second
\* refresh is waiting on its second wave with a fetch of its own done
C18_Witness ==
  /\ refresh.pc = "wave2" /\ refresh.gen = 2
  /\ refresh.results["staking"] = "ok"
  /\ seen.fn = "getCachedState" /\ seen.snap = cachedState
  /\ \A k \in CacheKeys : cachedState[k] = 1

\* the age getCachedState reports
CacheAgeMs == dateNow - lastRefreshMs

\* C19: the cacheAgeMs getCachedState returns is never negative, does not
\* decrease while no refresh publishes, and is 0 when a refresh publishes
C19_CacheAge ==
  /\ [](GetCachedState.cacheAgeMs >= 0 /\ seen.cacheAgeMs >= 0)
  /\ [][published' = published => GetCachedState'.cacheAgeMs >= GetCachedState.cacheAgeMs]_vars
  /\ [][published' # published => GetCachedState'.cacheAgeMs = 0]_vars

\* C19, the case: the second refresh has published after time had passed
\* during its fetches, and a reader was given a positive age since
C19_Witness ==
  /\ 2 \in published /\ lastRefreshMs > CacheTickMs
  /\ seen.fn = "getCachedState" /\ seen.cacheAgeMs > 0
  /\ seen.snap = cachedState

\* C20: a key that some published refresh fetched still reads as the value
\* of the last refresh that fetched it, whatever failed since
C20_KeepsLastGood ==
  \A k \in CacheKeys : lastGood[k] > 0 => GetCached(k) = lastGood[k]

SubInitAll ==
  /\ MutexInit /\ CallerInit /\ SenderInit /\ AgentInit /\ KaInit /\ RunInit
  /\ BackoffInit /\ ProfitDone /\ PreflightInit /\ CacheInit
  /\ ConfigInit
  /\ RangeInit
  /\ LoopIdle
  /\ ContractIdle
  /\ SubInit

SpecSubIds == SubInitAll /\ [][SubNext]_vars

\* C21: of two consecutive calls of getSubscriptionIds that have returned,
\* less than 60 s apart and with no invalidation in between, the second
\* returns the list of the first and reads nothing from the chain
C21_CacheHit ==
  (/\ Len(idsReturned) = 2
   /\ ~idsReturned[1].thrown /\ ~idsReturned[2].thrown
   /\ idsReturned[2].start - idsReturned[1].end < SUB_IDS_CACHE_TTL_MS
   /\ ~idsReturned[2].invalidated)
    => (idsReturned[2].list = idsReturned[1].list /\ idsReturned[2].reads = 0)

\* C38: when a forceRefresh() call has resolved, the published snapshot comes
\* from a refresh that started after the call was made; the refreshing flag
\* is cleared by every step that ends a refresh
C38_ForcedIsFresh ==
  /\ forced.pc = "resolved" => forced.snap > forced.since
  /\ refresh.pc = "idle" => ~refreshing

\* C37: the list getSubscriptionIds caches after its batch reads holds the
\* ids of the indices 0 to count - 1, in index order
C37_WholeListCached ==
  [][(idsCall.pc = "batch" /\ idsCall'.pc = "idle")
       => cachedSubIds' = SubSeq(subscriptionIds, 1, idsCall.count)]_vars

\* the first block of "the last N blocks" before block latest
LookbackFrom(latest) ==
  IF latest > MaxLookbackBlocks THEN latest - MaxLookbackBlocks ELSE 0

\* C35: a log of the scanned range, the cursor already moved past it, whose
\* request is PENDING when pollPendingRequests looks it up, is in the list
\* that is returned
C35_PendingListed ==
  [][\A s \in PollScanners :
       (scanPc[s] = "lookup" /\ scanList'[s] # scanList[s]
          /\ reqStatus[Head(scanList[s])] = "PENDING"
          /\ reqBlock[Head(scanList[s])] <= cursorFile[LabelOf(s)])
       => \E i \in 1..Len(scanPending'[s]) : scanPending'[s][i] = Head(scanList[s])]_vars

\* C22: with no persisted cursor the first successful scan of the watcher,
\* of the fallback poll and of the sweeper starts at most at the first of
\* the last N blocks, and the watcher has passed on every request created
\* in the range up to its cursor
C22_FreshLookback ==
  /\ \A s \in Scanners :
       firstScan[s] # NoScan => firstScan[s].from <= LookbackFrom(firstScan[s].latest)
  /\ firstScan["watcher"] # NoScan =>
       \A r \in Requests :
         (reqStatus[r] # "NONE" /\ reqBlock[r] \in LookbackFrom(lastBlock)..lastBlock)
           => <<"request_created", r>> \in bcast

ContractInitAll ==
  /\ MutexInit /\ CallerInit /\ SenderInit /\ AgentInit /\ KaInit /\ RunInit
  /\ BackoffInit /\ ProfitDone /\ PreflightInit /\ CacheInit
  /\ ConfigInit
  /\ RangeInit
  /\ LoopIdle
  /\ SubIdle /\ ContractInit

SpecContract == ContractInitAll /\ [][ContractNext]_vars

LedgerInitAll ==
  /\ MutexInit /\ CallerInit /\ SenderInit /\ AgentInit /\ KaInit /\ RunInit
  /\ BackoffInit /\ ProfitDone /\ PreflightInit /\ CacheInit
  /\ ConfigInit
  /\ RangeInit
  /\ LoopIdle
  /\ SubIdle /\ LedgerInit

SpecLedger == LedgerInitAll /\ [][LedgerNext]_vars

\* the conditions under which a fulfill may succeed
FulfillAllowed ==
  /\ subscription.active
  /\ subscription.maxFulfillments # 0 =>
       subscription.fulfillmentCount < subscription.maxFulfillments
  /\ \/ subscription.lastFulfilled = 0
     \/ blockTimestamp >= subscription.lastFulfilled + subscription.intervalSeconds
  /\ balances >= subscription.feePerCycle + (subscription.feePerCycle \div 10)
                   + oracleGasUsdc
  /\ shouldRunAnswer \in {"true", "reverts"}

\* C23: a fulfill succeeds only when the subscription is active, below its
\* maximum, its interval has elapsed, the balance covers the cost and
\* shouldRun returns true or is not implemented; otherwise it reverts and no
\* balance, counter or timestamp changes
C23_FulfillGuarded ==
  [][fulfillCalls' # fulfillCalls =>
       /\ fulfillOutcome' = "success" => FulfillAllowed
       /\ ~FulfillAllowed =>
            (fulfillOutcome' # "success" /\ UNCHANGED contractState)]_vars

\* C23, the case: after a successful fulfill a later call has reverted on
\* shouldRun returning false, with the interval elapsed and the balance
\* sufficient
C23_Witness ==
  /\ fulfillOutcome = "ConditionNotMet"
  /\ subscription.fulfillmentCount = 1
  /\ subscription.active
  /\ blockTimestamp >= subscription.lastFulfilled + subscription.intervalSeconds
  /\ balances >= subscription.feePerCycle + Markup(subscription.feePerCycle) + oracleGasUsdc

LoopInitAll ==
  /\ MutexInit /\ CallerInit /\ SenderInit /\ AgentInit /\ KaInit /\ RunInit
  /\ BackoffInit /\ ProfitDone /\ PreflightInit /\ CacheInit
  /\ ConfigInit
  /\ RangeInit
  /\ LoopInit
  /\ ContractIdle
  /\ SubIdle

SpecLoops == LoopInitAll /\ [][LoopNext]_vars

\* the runs of poll of loop l that are in progress
Running(l) == {k \in 1..LoopSlots : body[<<l, k>>].pc # "idle"}

\* C24: at most one iteration of pollAndFulfill is in progress, and while
\* one is in progress no next one is scheduled
C24_NoOverlap ==
  /\ Cardinality(Running("pollAndFulfill")) <= 1
  /\ Running("pollAndFulfill") # {} => ~timer["pollAndFulfill"]

\* C24, the case: a later iteration is fulfilling, after an earlier one
\* has completed
C24_Witness ==
  /\ polls["pollAndFulfill"] >= 2
  /\ \E k \in 1..LoopSlots : body[<<"pollAndFulfill", k>>].pc = "write"

\* C31: a loop that has been stopped has no ticker set
C31_NoTickerAfterStop == \A l \in Loops : stopped[l] => ~timer[l]

\* C30: a loop that has been stopped makes no callback, submits no
\* transaction and saves no cursor
C30_DiscardAfterStop == lateEffects = {}

\* C25: after a successful watcher poll no error is counted and the
\* interval is 2 s
C25_RecoveredInterval ==
  streak["watcher"].n = 0 => (consecutiveErrors = 0 /\ currentPollMs = 2000)

\* C33: the watcher writes its cursor only as the current block at the end
\* of a scan, and a poll that fails leaves the persisted cursor and
\* lastBlock as they were
C33_FailedScanKeepsCursor ==
  /\ [][cursorFile'["hub-watcher"] # cursorFile["hub-watcher"]
          => (cursorFile'["hub-watcher"] = head /\ lastBlock' = head)]_vars
  /\ [][streak'["watcher"].n > streak["watcher"].n
          => (lastBlock' = lastBlock /\ cursorFile' = cursorFile)]_vars

\* C26: the first successful poll after lastBlock was reset to 0 scans from
\* the first block of the lookback window
C26_RescanAfterReset ==
  recovery.state = "recovered" => recovery.from <= LookbackFrom(recovery.latest)

\* the tasks that are inside routeRequest or inside the sweeper's visit
Routing == {t \in TaskIds : task[t].pc \notin {"idle", "getRequest"}}

\* C29: when a routeRequest call or a sweeper cancel settles, whatever its
\* outcome, its request id is not in the in-flight set any more, and the
\* set is empty while no routing or sweeping task is running
C29_Released ==
  /\ [][\A t \in Routing : task'[t].pc = "idle" => t[2] \notin inProgress']_vars
  /\ [](Routing = {} => inProgress = {})

\* C29, the case: a request was routed to its handler, the call has settled
\* without a transaction, and no task is running
C29_Witness ==
  /\ Routing = {}
  /\ \E r \in Requests : <<"request_routing", r>> \in bcast
  /\ txs = <<>>

SpecRanges == InitAll /\ [][RangeNext]_vars

\* C32: every getLogs call of a scan covers at most 1,000 blocks
C32_RangeAtMostChunk ==
  \A i \in 1..Len(logCalls.ranges) :
    logCalls.ranges[i][2] - logCalls.ranges[i][1] + 1 <= 1000

SpecConfig == InitAll /\ [][ConfigNext]_vars

\* C36: a config event emitted after the first successful poll, in a block
\* the watcher has moved past and that no poll in progress covers, has
\* been passed to the callback (no later poll reads that block)
C36_ConfigEventDelivered ==
  \A b \in cfgEvents :
    (cfgSince > 0 /\ b > cfgSince /\ b <= cfgLastBlock
       /\ ~(cfgPoll.pc = "logs" /\ b \in cfgPoll.from .. cfgPoll.to))
    => b \in cfgDelivered

\* C39: the USDC the KeepAlive contract holds covers the consumer balances
\* and the protocol fee accumulator after every call; a successful fulfill
\* debits the consumer fee + markup + gas reimbursement, pays the caller
\* fee + gas reimbursement and adds the markup to the accumulator
C39_Solvent ==
  /\ [](usdcHeld >= balances + otherBalances + protocolFeesAccumulator)
  /\ [][(fulfillCalls' # fulfillCalls /\ fulfillOutcome' = "success") =>
          LET fee == subscription.feePerCycle
              markup == Markup(fee)
          IN /\ balances' = balances - (fee + markup + oracleGasUsdc)
             /\ agentUsdc' = agentUsdc + fee + oracleGasUsdc
             /\ protocolFeesAccumulator' = protocolFeesAccumulator + markup]_vars

\* C39, the case: fulfills have been paid, the consumer has cancelled and
\* been refunded, the fees have been flushed or withdrawn and another
\* depositor still has a balance
C39_Witness ==
  /\ totalFulfillments > 0
  /\ ~subscription.active
  /\ protocolFeesAccumulator = 0
  /\ otherBalances > 0
  /\ usdcHeld = otherBalances

\* C40: cancelSubscription of the consumer's second subscription leaves the
\* first subscription and the balance it is fulfilled from as they were
C40_CancelFrame ==
  [][(otherActive /\ ~otherActive') =>
       (subscription' = subscription /\ balances' = balances)]_vars

SpecSender == InitAll /\ [][SenderNext]_vars

\* C1: every write signed by the agent key goes through one sender: at most
\* one transaction is between its nonce read and its submission, and every
\* transaction sent carries a nonce greater than all sent before it.
C1_OneSender ==
  /\ Cardinality({w \in Writers : wState[w] = "preparing"}) <= 1
  /\ \A i, j \in 1..Len(sentLog) : i < j => sentLog[i] < sentLog[j]

====
